---- MODULE Spec2Model ----
(***************************************************************************)
(* A model of lykmapipo/scheduler: a redis-backed recurring-job scheduler. *)
(*                                                                         *)
(*  - the time calculator (timers): nextCronRunTimeFor,                    *)
(*    nextHumanRunTimeFor, nextRunTimeFor;                                 *)
(*  - the expiry protocol (scheduler): isAlreadyScheduled,                 *)
(*    scheduleNextRun, subscribeForScheduleExpiry, invokeSchedule, run by  *)
(*    several processes against one shared store.                          *)
(*                                                                         *)
(* Instants are milliseconds since the epoch (integers).                   *)
(***************************************************************************)
EXTENDS Integers, Sequences, FiniteSets, TLC

(***************************************************************************)
(* JavaScript values the time calculator passes around.  A moment and a    *)
(* Date are different kinds of value: only a moment has toDate().          *)
(***************************************************************************)
Moment(t) == [kind |-> "moment", t |-> t, err |-> ""]

DateOf(t) == [kind |-> "date", t |-> t, err |-> ""]

Thrown(e) == [kind |-> "throw", t |-> 0, err |-> e]

Undefined == [kind |-> "undefined", t |-> 0, err |-> ""]

\* lastRunAt not given by the caller
NoDate == -1

(***************************************************************************)
(* Recurrence patterns, as the sequence of their whitespace-separated      *)
(* tokens: "1 second" is <<"1", "second">>.                                *)
(***************************************************************************)
OneSecond == <<"1", "second">>

TwoSeconds == <<"2", "seconds">>

FiveMinutes == <<"5", "minutes">>

EverySecond == <<"*", "*", "*", "*", "*", "*">>

EveryMinute == <<"*", "*", "*", "*", "*">>

BadUnit == <<"1", "fortnight">>

Patterns == {OneSecond, TwoSeconds, FiveMinutes, EverySecond, EveryMinute, BadUnit}

\* the number a token reads as (parseFloat); 0 when it is no number
NumberOf(tok) ==
  CASE tok = "1" -> 1
    [] tok = "2" -> 2
    [] tok = "5" -> 5
    [] OTHER -> 0

\* milliseconds of a unit word; 0 when the word is no unit
UnitMs(tok) ==
  CASE tok \in {"second", "seconds"} -> 1000
    [] tok \in {"minute", "minutes"} -> 60000
    [] tok \in {"hour", "hours"} -> 3600000
    [] OTHER -> 0

\* humanInterval(pattern): the duration in milliseconds, or a falsy value
\* (0 here, NaN in the library) when the phrase is not "<N> <unit>"
humanInterval(pattern) ==
  IF Len(pattern) = 2 THEN NumberOf(pattern[1]) * UnitMs(pattern[2]) ELSE 0

\* new CronTime(pattern) parses: 5 or 6 fields, each a cron field
CronParses(pattern) ==
  /\ Len(pattern) \in {5, 6}
  /\ \A i \in 1..Len(pattern) : pattern[i] = "*"

\* the period of an all-wildcard pattern: 6 fields tick every second,
\* 5 fields every minute (the seconds field defaults to 0)
CronPeriod(pattern) == IF Len(pattern) = 6 THEN 1000 ELSE 60000

\* a slip: one period after start, whether or not that instant matches
getNextDateFrom_Unaligned(pattern, start) == start + CronPeriod(pattern)

\* cronTime._getNextDateFrom(start): the soonest match strictly after start
getNextDateFrom(pattern, start) ==
  ((start \div CronPeriod(pattern)) + 1) * CronPeriod(pattern)

\* a clock is the sequence of readings the successive `new Date()` of one
\* synchronous computation return; the last reading repeats
ClockRest(clk) == IF Len(clk) > 1 THEN Tail(clk) ELSE clk

\* momentFor(date, timezone): undefined wraps the current time
momentFor(date, clk) == Moment(IF date = NoDate THEN clk[1] ELSE date)

\* nextRun.toDate(): a Date has no such method
toDate(v) ==
  CASE v.kind = "moment" -> DateOf(v.t)
    [] v.kind = "throw" -> v
    [] OTHER -> Thrown("TypeError: nextRun.toDate is not a function")

RECURSIVE nextCronRunTimeFor(_, _, _)
nextCronRunTimeFor(pattern, lastRunAt, clk) ==
  IF ~CronParses(pattern) THEN Thrown("Error: invalid cron pattern")
  ELSE
    LET lastRun == momentFor(lastRunAt, clk)
        nextRun == Moment(getNextDateFrom(pattern, lastRun.t))
        now == clk[1]
        isBefore == nextRun.t - now <= 0
    IN  toDate(IF isBefore
               THEN nextCronRunTimeFor(pattern, now, ClockRest(clk))
               ELSE nextRun)

\* a slip: the interval is added to the current time, not to lastRunAt
nextHumanRunTimeFor_FromNow(pattern, lastRunAt, clk) ==
  LET humanTime == humanInterval(pattern) IN
  IF humanTime = 0 THEN Thrown("Error: Invalid Human Interval Pattern")
  ELSE toDate(Moment(clk[1] + humanTime))

RECURSIVE nextHumanRunTimeFor(_, _, _)
nextHumanRunTimeFor(pattern, lastRunAt, clk) ==
  LET humanTime == humanInterval(pattern) IN
  IF humanTime = 0 THEN Thrown("Error: Invalid Human Interval Pattern")
  ELSE
    LET lastRun == momentFor(lastRunAt, clk)
        nextRun == Moment(lastRun.t + humanTime)
        now == clk[1]
        isBefore == nextRun.t - now <= 0
    IN  toDate(IF isBefore
               THEN nextHumanRunTimeFor(pattern, now, ClockRest(clk))
               ELSE nextRun)

\* tryCatch(fn, undefined): the value, or undefined when fn throws
tryCatch(v) == IF v.kind = "throw" THEN Undefined ELSE v

\* a slip: no fallback to the human-interval grammar
nextRunTimeFor_CronOnly(pattern, lastRunAt, clk) ==
  tryCatch(nextCronRunTimeFor(pattern, lastRunAt, clk))

nextRunTimeFor(pattern, lastRunAt, clk) ==
  LET fromCron == tryCatch(nextCronRunTimeFor(pattern, lastRunAt, clk)) IN
  IF fromCron.kind # "undefined" THEN fromCron
  ELSE tryCatch(nextHumanRunTimeFor(pattern, lastRunAt, clk))


(***************************************************************************)
(* Key naming.  A name, a prefix and a key are sequences of segments: the  *)
(* string "r:schedules:sendEmail" is <<"r", "schedules", "sendEmail">>,    *)
(* so joining with the separator is concatenation.                         *)
(***************************************************************************)
\* withDefaults: prefix 'r', schedulePrefix 'schedules'
KeyPrefix == <<"r">>

SchedulePrefix == <<"schedules">>

\* keyFor(...parts) of redis-common: the prefix, then the parts, joined
keyFor(parts) == KeyPrefix \o parts

scheduleExpiryKeyFor(name) == keyFor(SchedulePrefix \o name)

SendEmail == <<"sendEmail">>

Names == {SendEmail}

Keys == {scheduleExpiryKeyFor(n) : n \in Names}

(***************************************************************************)
(* The shared store: for each key whether it exists, its value and the     *)
(* instant its TTL ends (NoExpiry when it has none).                       *)
(***************************************************************************)
NoExpiry == -1

Absent == [exists |-> FALSE, value |-> <<>>, expireAt |-> NoExpiry]

\* keyIsExpired: the TTL has run out (the key is deleted on the next access)
KeyExpired(entry, t) ==
  entry.exists /\ entry.expireAt # NoExpiry /\ t > entry.expireAt

\* the key as a command sees it
KeyLive(entry, t) == entry.exists /\ ~KeyExpired(entry, t)

\* PTTL key: -2 when there is no key, -1 when it has no expiry, else the
\* remaining milliseconds
RedisPttl(entry, t) ==
  IF ~KeyLive(entry, t) THEN -2
  ELSE IF entry.expireAt = NoExpiry THEN -1
  ELSE entry.expireAt - t

\* SET key value [PX ms] [NX]: the entry after the command and its reply
RedisSet(entry, cmd, t) ==
  IF cmd.px # NoExpiry /\ cmd.px <= 0
  THEN [entry |-> IF KeyLive(entry, t) THEN entry ELSE Absent,
        error |-> "ERR invalid expire time in set", ok |-> FALSE]
  ELSE IF cmd.nx /\ KeyLive(entry, t)
  THEN [entry |-> entry, error |-> "", ok |-> FALSE]
  ELSE [entry |-> [exists |-> TRUE, value |-> cmd.value,
                   expireAt |-> IF cmd.px = NoExpiry THEN NoExpiry ELSE t + cmd.px],
        error |-> "", ok |-> TRUE]

\* a failure of the connection or of the command
StoreErrors == {"ECONNRESET"}

(***************************************************************************)
(* scheduler: the code of one call, as functions of what the call reads.   *)
(***************************************************************************)
\* an invocation of done(error, result)
Done(error, hasResult, isScheduled, nextRunAt) ==
  [error |-> error, hasResult |-> hasResult,
   isScheduled |-> isScheduled, nextRunAt |-> nextRunAt]

\* a slip: `!!ttl`, true for the -1 and -2 of pttl as well
isExpired_Truthy(ttl) == ttl # 0

\* isAlreadyScheduled: `!!(ttl && ttl > 0)`
isExpired(ttl) == ttl # 0 /\ ttl > 0

\* a slip: the error of the store is not looked at
isAlreadyScheduledReply_Swallow(error, ttl) ==
  <<Done("", TRUE, ttl # 0 /\ ttl > 0, NoDate)>>

\* isAlreadyScheduled: the pttl callback; the done invocations it makes
isAlreadyScheduledReply(error, ttl) ==
  IF error # ""
  THEN <<Done(error, FALSE, FALSE, NoDate)>>
  ELSE <<Done("", TRUE, isExpired(ttl), NoDate)>>

\* scheduleNextRun, up to the store command: the instant `now`, lastRunAt
\* defaulted to it, nextRunAt and scheduleDelay; nextRunAt.getTime() throws
\* on undefined
scheduleNextRunPlan(interval, lastRunAtGiven, clk) ==
  LET now == clk[1]
      lastRunAt == IF lastRunAtGiven = NoDate THEN now ELSE lastRunAtGiven
      nextRunAt == nextRunTimeFor(interval, lastRunAt, ClockRest(clk))
  IN  IF nextRunAt.kind = "undefined"
      THEN [thrown |-> TRUE, lastRunAt |-> lastRunAt, nextRunAt |-> NoDate,
            scheduleDelay |-> 0]
      ELSE [thrown |-> FALSE, lastRunAt |-> lastRunAt, nextRunAt |-> nextRunAt.t,
            scheduleDelay |-> nextRunAt.t - now]

\* a slip: the set is not conditional
scheduleNextRunCommand_NoNX(key, scheduleDelay) ==
  [key |-> key, value |-> key, px |-> scheduleDelay, nx |-> FALSE]

\* a slip: the delay is passed to PX in seconds
scheduleNextRunCommand_Seconds(key, scheduleDelay) ==
  [key |-> key, value |-> key, px |-> scheduleDelay \div 1000, nx |-> TRUE]

\* scheduleNextRun: redisClient.set(key, key, 'PX', scheduleDelay, 'NX', cb)
scheduleNextRunCommand(key, scheduleDelay) ==
  [key |-> key, value |-> key, px |-> scheduleDelay, nx |-> TRUE]

\* a slip: a set that found the key present is reported as a failure
scheduleNextRunReply_NilIsError(error, ok, nextRunAt) ==
  IF error # "" \/ ~ok
  THEN <<Done(IF error # "" THEN error ELSE "Error: already scheduled",
              FALSE, FALSE, NoDate)>>
  ELSE <<Done("", TRUE, FALSE, nextRunAt)>>

\* scheduleNextRun: the set callback (the reply itself is not read)
scheduleNextRunReply(error, ok, nextRunAt) ==
  IF error # ""
  THEN <<Done(error, FALSE, FALSE, NoDate)>>
  ELSE <<Done("", TRUE, FALSE, nextRunAt)>>


(***************************************************************************)
(* Schedule definitions and their invocation.  A definition is the value   *)
(* a caller passes as optns: null, undefined, a string or an object.  A    *)
(* field the object does not have is <<>> (name, interval) or "none"       *)
(* (perform, data).  perform is "notfn" when it is no function, else the   *)
(* name of a function, which tells how the function behaves.               *)
(***************************************************************************)
Optns(kind, name, interval, perform, data) ==
  [kind |-> kind, name |-> name, interval |-> interval, perform |-> perform,
   data |-> data]

Schedule(name, interval, perform) ==
  Optns("object", name, interval, perform, "none")

Null == Optns("null", <<>>, <<>>, "none", "none")

UndefinedOptns == Optns("undefined", <<>>, <<>>, "none", "none")

\* the strings '' and ' ': they have no name, interval or perform
EmptyString == Optns("emptystring", <<>>, <<>>, "none", "none")

BlankString == Optns("string", <<>>, <<>>, "none", "none")

EmptyObject == Optns("object", <<>>, <<>>, "none", "none")

\* the functions a definition may give as perform
PerformFunctions == {"ok", "echo", "fails", "throws", "hangs", "callsThenThrows"}

\* lodash isFunction
isFunction(perform) == perform \in PerformFunctions

\* lodash isEmpty of a name or an interval
isEmpty(v) == v = <<>>

\* `!optns`
Falsy(optns) == optns.kind \in {"null", "undefined", "emptystring"}

\* a slip: perform only has to be present
isValidSchedule_AnyPerform(optns) ==
  IF Falsy(optns) THEN FALSE
  ELSE /\ ~isEmpty(optns.name)
       /\ ~isEmpty(optns.interval)
       /\ optns.perform # "none"

isValidSchedule(optns) ==
  IF Falsy(optns) THEN FALSE
  ELSE /\ ~isEmpty(optns.name)
       /\ ~isEmpty(optns.interval)
       /\ isFunction(optns.perform)

\* an invocation of the done of invokeSchedule: done(error, result)
Invoked(error, result) == [error |-> error, result |-> result]

\* perform(data, cb): the invocations of cb it makes, in order, and the error
\* it throws ("" when it returns)
Perform(perform, data) ==
  CASE perform = "ok" -> [calls |-> <<Invoked("", "{}")>>, throws |-> ""]
    [] perform = "echo" -> [calls |-> <<Invoked("", data)>>, throws |-> ""]
    [] perform = "fails" -> [calls |-> <<Invoked("Failed", "none")>>, throws |-> ""]
    [] perform = "throws" -> [calls |-> <<>>, throws |-> "Thrown"]
    [] perform = "hangs" -> [calls |-> <<>>, throws |-> ""]
    [] perform = "callsThenThrows" ->
         [calls |-> <<Invoked("", "{}")>>, throws |-> "Thrown"]

\* a slip: an invocation that got no callback is ended by a timeout
invokeSchedule_Timeout(schedule) ==
  IF ~isValidSchedule(schedule)
  THEN [performs |-> 0, thrown |-> "",
        done |-> <<Invoked("Invalid schedule definition", "none")>>]
  ELSE LET data == IF schedule.data = "none" THEN "{}" ELSE schedule.data
           run == Perform(schedule.perform, data)
           made == run.calls \o
                   (IF run.throws # "" THEN <<Invoked(run.throws, "none")>> ELSE <<>>)
       IN  [performs |-> 1, thrown |-> "",
            done |-> IF made = <<>> THEN <<Invoked("Timeout", "none")>> ELSE made]

\* a slip: the error perform throws is not caught
invokeSchedule_NoCatch(schedule) ==
  IF ~isValidSchedule(schedule)
  THEN [performs |-> 0, thrown |-> "",
        done |-> <<Invoked("Invalid schedule definition", "none")>>]
  ELSE LET data == IF schedule.data = "none" THEN "{}" ELSE schedule.data
           run == Perform(schedule.perform, data)
       IN  [performs |-> 1, thrown |-> run.throws, done |-> run.calls]

\* a slip: perform is tried before the definition is checked
invokeSchedule_NoCheck(schedule) ==
  LET data == IF schedule.data = "none" THEN "{}" ELSE schedule.data
      run == IF isFunction(schedule.perform)
             THEN Perform(schedule.perform, data)
             ELSE [calls |-> <<>>, throws |-> "TypeError: perform is not a function"]
  IN  [performs |-> IF isFunction(schedule.perform) THEN 1 ELSE 0,
       thrown |-> "",
       done |-> run.calls \o
                (IF run.throws # "" THEN <<Invoked(run.throws, "none")>> ELSE <<>>)]

\* invokeSchedule(schedule, done): how often perform ran, the done
\* invocations made, in order, and the error the call throws ("" when none)
invokeSchedule(schedule) ==
  IF ~isValidSchedule(schedule)
  THEN [performs |-> 0, thrown |-> "",
        done |-> <<Invoked("Invalid schedule definition", "none")>>]
  ELSE LET data == IF schedule.data = "none" THEN "{}" ELSE schedule.data
           run == Perform(schedule.perform, data)
       IN  [performs |-> 1, thrown |-> "",
            done |-> run.calls \o
                     (IF run.throws # "" THEN <<Invoked(run.throws, "none")>>
                      ELSE <<>>)]

\* the registry every process has loaded
Registry == [n \in Names |-> Schedule(n, OneSecond, "ok")]

\* the start protocol resolves an expired key back to the schedule names
NamesOfKey(key) == {n \in Names : scheduleExpiryKeyFor(n) = key}

(***************************************************************************)
(* The registry of the scheduler module: `let schedules = {}`, a plain     *)
(* object keyed by schedule name.  A name it has no own entry for holds    *)
(* UndefinedOptns.                                                         *)
(***************************************************************************)
SendReport == <<"sendReport">>

Constructor == <<"constructor">>

RegistryNames == {SendEmail, SendReport, Constructor}

\* properties a plain object inherits from Object.prototype
InheritedNames == {Constructor}

\* Object.prototype.constructor: a function, hence truthy
ObjectConstructor == Optns("function", <<"Object">>, <<>>, "none", "none")

\* a slip: one entry survives the reset
clearRegistry_Leftover ==
  [n \in RegistryNames |->
     IF n = SendEmail THEN Optns("object", SendEmail, TwoSeconds, "fails", "none")
     ELSE UndefinedOptns]

\* schedules = {}
clearRegistry == [n \in RegistryNames |-> UndefinedOptns]

\* schedules[name]: the own entry, else the inherited property
PropertyOf(schedules, name) ==
  IF schedules[name] # UndefinedOptns THEN schedules[name]
  ELSE IF name \in InheritedNames THEN ObjectConstructor
  ELSE UndefinedOptns

\* mergeObjects(a, b): a new object with the fields of a overridden by the
\* fields b has; a source that is no object brings no field
mergeObjects(a, b) ==
  Optns("object",
        IF b.name # <<>> THEN b.name ELSE a.name,
        IF b.interval # <<>> THEN b.interval ELSE a.interval,
        IF b.perform # "none" THEN b.perform ELSE a.perform,
        IF b.data # "none" THEN b.data ELSE a.data)

\* a slip: a definition registered again replaces the stored one
defineSchedule_LastWins(schedules, optns) ==
  IF ~isValidSchedule(optns) THEN schedules
  ELSE [schedules EXCEPT ![optns.name] = mergeObjects(EmptyObject, optns)]

\* a slip: the definition is stored without a look at its validity
defineSchedule_NoCheck(schedules, optns) ==
  IF Falsy(optns) \/ optns.name \notin RegistryNames THEN schedules
  ELSE IF ~Falsy(PropertyOf(schedules, optns.name)) THEN schedules
  ELSE [schedules EXCEPT ![optns.name] = mergeObjects(EmptyObject, optns)]

\* defineSchedule(optns): the registry after the call, which is also what
\* the call returns
defineSchedule(schedules, optns) ==
  IF ~isValidSchedule(optns) THEN schedules
  ELSE IF ~Falsy(PropertyOf(schedules, optns.name)) THEN schedules
  ELSE [schedules EXCEPT ![optns.name] = mergeObjects(EmptyObject, optns)]

\* a source file of a schedules directory: its filename without extension
\* and what it exports
SourceFile(filename, exported) == [filename |-> filename, exported |-> exported]

\* the options of loadSchedules: undefined, or an object whose schedulesPath
\* names a directory that is missing, that holds a source which fails to
\* load, or that holds the given sources in the order they are listed
LoadOptns(kind, dir, files) == [kind |-> kind, dir |-> dir, files |-> files]

\* importAll(optns.schedulesPath): the sources by filename, or a throw
importAll(optns) ==
  IF optns.kind = "undefined"
  THEN [thrown |-> "TypeError: Cannot read property 'schedulesPath' of undefined",
        files |-> <<>>]
  ELSE IF optns.dir = "missing"
  THEN [thrown |-> "ENOENT: no such file or directory", files |-> <<>>]
  ELSE IF optns.dir = "broken"
  THEN [thrown |-> "Error: source failed to load", files |-> <<>>]
  ELSE [thrown |-> "", files |-> optns.files]

\* forEach(schedulesFromPath, ...): each source, named from its filename
\* unless it names itself, goes through defineSchedule
RECURSIVE registerAll(_, _)
registerAll(schedules, files) ==
  IF files = <<>> THEN schedules
  ELSE LET scheduleFromPathWithName ==
             mergeObjects(Optns("object", Head(files).filename, <<>>, "none", "none"),
                          Head(files).exported)
       IN  registerAll(defineSchedule(schedules, scheduleFromPathWithName),
                       Tail(files))

\* a slip: no try/catch around the load
loadSchedules_NoCatch(schedules, optns) ==
  LET loaded == importAll(optns) IN
  IF loaded.thrown # ""
  THEN [thrown |-> loaded.thrown, schedules |-> schedules]
  ELSE [thrown |-> "", schedules |-> registerAll(schedules, loaded.files)]

\* loadSchedules(optns): what the call throws ("" when nothing) and the
\* registry after the call, which is also what the call returns
loadSchedules(schedules, optns) ==
  LET loaded == importAll(optns) IN
  IF loaded.thrown # ""
  THEN [thrown |-> "", schedules |-> schedules]
  ELSE [thrown |-> "", schedules |-> registerAll(schedules, loaded.files)]

(***************************************************************************)
(* Bounds of the model.                                                    *)
(***************************************************************************)
\* whole seconds the clock runs for
MaxSeconds == 1

\* milliseconds past a whole second the clock is followed for
MaxLag == 2

\* milliseconds the clock may move during one synchronous computation
MaxDrift == 1

\* how far the clock moves between two steps
ClockSteps == {1, 1000}

\* the instants the clock is followed at
OnGrid(t) == t % 1000 <= MaxLag /\ t \div 1000 <= MaxSeconds

Procs == {"p1", "p2"}

\* what a caller passes as optns.interval and optns.lastRunAt
Intervals == {OneSecond, BadUnit}

LastRunAts == {NoDate, 0}

\* the expiry the tests give a key they set themselves
TestDelay == 500

(***************************************************************************)
(* redis: the two clients the module keeps, `let scheduler` and            *)
(* `let listener`.  A client is known by its uuid, a positive number; every *)
(* createRedisClient gives a client with a new uuid.                       *)
(***************************************************************************)
\* no client: the variable is undefined or null
NoClient == 0

\* what a create call did: the client it returns, the client the module
\* keeps afterwards, and whether it created one
Created(client, kept, created) ==
  [client |-> client, kept |-> kept, created |-> created]

\* a slip: a client is created on every call
createScheduler_AlwaysNew(held, recreate, fresh) == Created(fresh, fresh, TRUE)

\* createScheduler(optns): held is `scheduler`, fresh what createRedisClient
\* would give; `scheduler = scheduler || redisClient`
createScheduler(held, recreate, fresh) ==
  IF recreate \/ held = NoClient
  THEN Created(fresh, IF held # NoClient THEN held ELSE fresh, TRUE)
  ELSE Created(held, held, FALSE)

\* createListener(optns): the same on `listener`
createListener(held, recreate, fresh) ==
  IF recreate \/ held = NoClient
  THEN Created(fresh, IF held # NoClient THEN held ELSE fresh, TRUE)
  ELSE Created(held, held, FALSE)

\* what quit did: the clients it closed, the two variables afterwards and
\* the scheduler and listener of the object it returns
Quitted(closed, s, l, rs, rl) ==
  [closed |-> closed, scheduler |-> s, listener |-> l,
   returns |-> [scheduler |-> rs, listener |-> rl]]

\* a slip: the clients are closed and still kept
quit_KeepsClients(s, l) == Quitted({s, l} \ {NoClient}, s, l, s, l)

\* a slip: the returned object is built before the reset
quit_ReturnsPrior(s, l) == Quitted({s, l} \ {NoClient}, NoClient, NoClient, s, l)

\* quit(): quitRedisClient on both, both set to null, then
\* `return { ...redisClients, scheduler, listener }`
quit(s, l) == Quitted({s, l} \ {NoClient}, NoClient, NoClient, NoClient, NoClient)

(***************************************************************************)
(* redis: the keys of a schedule.  A name that holds the separator is a     *)
(* sequence of several segments; compact drops an empty name.              *)
(***************************************************************************)
\* a slip: the name is left out of the key
scheduleDataKeyFor_NoName(name) == keyFor(SchedulePrefix \o <<"data">>)

scheduleDataKeyFor(name) == keyFor(SchedulePrefix \o <<"data">> \o name)

\* the later revision of the module
expiryKeyFor(name) == keyFor(SchedulePrefix \o <<"keys">> \o name)

dataKeyFor(name) == keyFor(SchedulePrefix \o <<"data">> \o name)

\* expiredSubscriptionKeyFor: `__keyevent@${db}__:expired`
expiredSubscriptionKeyFor(db) == <<"__keyevent@" \o db \o "__", "expired">>

(***************************************************************************)
(* redis: notify-keyspace-events.  A flag string is a sequence of letters. *)
(* The store keeps the setting as a set of flags and writes it back as a   *)
(* string of its own making: 'A' when every event class is set.            *)
(***************************************************************************)
\* the event classes: 'g' generic and 'x' expired stand for all of them
ClassFlags == {"g", "x"}

Letters(string) == {string[i] : i \in DOMAIN string}

\* CONFIG SET notify-keyspace-events: the flags a string sets
ConfigSet(string) ==
  (Letters(string) \ {"A"}) \cup (IF "A" \in Letters(string) THEN ClassFlags ELSE {})

\* CONFIG GET notify-keyspace-events: the string for the flags set
ConfigGet(flags) ==
  (IF ClassFlags \subseteq flags THEN <<"A">>
   ELSE (IF "g" \in flags THEN <<"g">> ELSE <<>>)
          \o (IF "x" \in flags THEN <<"x">> ELSE <<>>))
    \o (IF "K" \in flags THEN <<"K">> ELSE <<>>)
    \o (IF "E" \in flags THEN <<"E">> ELSE <<>>)

\* `results[1].indexOf(part) > -1`
Occurs(part, string) == \E i \in DOMAIN string : string[i] = part

\* the callback isKeyspaceEventsEnabled gives to config('GET', ...): error
\* is "" when there is none, hasResults whether results were given, value is
\* results[1]; the outcome is cb(error, enabled)
isKeyspaceEventsEnabled(notifyKeyspaceEvents, error, hasResults, value) ==
  [error |-> error,
   enabled |-> /\ hasResults
               /\ value # <<>>
               /\ \A i \in DOMAIN notifyKeyspaceEvents :
                    Occurs(notifyKeyspaceEvents[i], value)]

\* isExpiryNotificationsEnabled of the earlier revision: 'E' and 'x'
isExpiryNotificationsEnabled(error, hasResults, value) ==
  [error |-> error,
   enabled |-> /\ hasResults
               /\ value # <<>>
               /\ Occurs("E", value) /\ Occurs("x", value)]

(***************************************************************************)
(* scheduler: the 'message' listener of subscribeForScheduleExpiry.        *)
(***************************************************************************)
\* what may be given as handleExpiredKey; "notfn" is not a function
Handlers == {"handles", "throws", "notfn"}

\* one run of handleExpiredKey: the arguments it was called with
Handled(handler, channel, expiredKey) ==
  [handler |-> handler, channel |-> channel, expiredKey |-> expiredKey]

\* what one run of the listener did: the runs of handleExpiredKey, whether
\* an exception left the listener, and the invocations of done it made
Listened(handled, escaped, done) ==
  [handled |-> handled, escaped |-> escaped, done |-> done]

\* a slip: handleExpiredKey is called outside a try
messageListener_NoCatch(handleExpiredKey, channel, expiredKey) ==
  Listened(IF handleExpiredKey = "notfn" THEN <<>>
           ELSE <<Handled(handleExpiredKey, channel, expiredKey)>>,
           handleExpiredKey \in {"throws", "notfn"}, <<>>)

\* a slip: done is invoked for every message
messageListener_CallsDone(handleExpiredKey, channel, expiredKey) ==
  Listened(IF handleExpiredKey = "notfn" THEN <<>>
           ELSE <<Handled(handleExpiredKey, channel, expiredKey)>>,
           FALSE, <<Invoked("", expiredKey)>>)

\* a slip: only expired schedule keys are handed on
messageListener_OnlyScheduleKeys(handleExpiredKey, channel, expiredKey) ==
  Listened(IF handleExpiredKey = "notfn" \/ expiredKey \notin Keys THEN <<>>
           ELSE <<Handled(handleExpiredKey, channel, expiredKey)>>,
           FALSE, <<>>)

\* (channel, expiredKey) => { try { handleExpiredKey(channel, expiredKey) }
\* catch (error) { } }: calling what is not a function throws as well
messageListener(handleExpiredKey, channel, expiredKey) ==
  Listened(IF handleExpiredKey = "notfn" THEN <<>>
           ELSE <<Handled(handleExpiredKey, channel, expiredKey)>>,
           FALSE, <<>>)

\* a slip: only the listener added first is run
emit_FirstListener(listeners, i, channel, expiredKey) ==
  IF listeners = <<>> THEN Listened(<<>>, FALSE, <<>>)
  ELSE LET ran == messageListener(listeners[1], channel, expiredKey)
       IN  Listened(ran.handled, ran.escaped, <<ran.done>>)

RECURSIVE emit(_, _, _, _)
\* emit('message', channel, expiredKey) of the client: the listeners from
\* the i-th on run in the order they were added; an exception that leaves
\* one ends the emit.  done holds, per listener run, its done invocations.
emit(listeners, i, channel, expiredKey) ==
  IF i > Len(listeners) THEN Listened(<<>>, FALSE, <<>>)
  ELSE LET ran == messageListener(listeners[i], channel, expiredKey)
           rest == IF ran.escaped THEN Listened(<<>>, TRUE, <<>>)
                   ELSE emit(listeners, i + 1, channel, expiredKey)
       IN  Listened(ran.handled \o rest.handled, rest.escaped,
                    <<ran.done>> \o rest.done)

(***************************************************************************)
(* redis: the locks.  acquireScheduleLock and acquireWorkLock derive a key *)
(* and hand it with lockTtl to lock of redis-common, which sets the key to *)
(* a token of its own if the key is absent, with the TTL, and gives the     *)
(* caller an unlock that deletes the key while it still holds that token.  *)
(***************************************************************************)
\* lockTtl of withDefaults when none is given
DefaultLockTtl == 1000

\* the lockTtl the tests give
CustomLockTtl == 2000

\* a slip: the work lock takes the key of the schedule lock
workLockKeyFor_Next(name) == SchedulePrefix \o <<"next">> \o name

\* acquireScheduleLock: [schedulePrefix, 'next', name].join(separator)
scheduleLockKeyFor(name) == SchedulePrefix \o <<"next">> \o name

\* acquireWorkLock: [schedulePrefix, 'work', name].join(separator)
workLockKeyFor(name) == SchedulePrefix \o <<"work">> \o name

\* a slip: the lock is set without a TTL
lock_NoTtl(entry, token, lockTtl, t) ==
  RedisSet(entry, [key |-> <<>>, value |-> token, px |-> NoExpiry, nx |-> TRUE], t)

\* a slip: the lock is set whether or not it is held
lock_Unconditional(entry, token, lockTtl, t) ==
  RedisSet(entry, [key |-> <<>>, value |-> token, px |-> lockTtl, nx |-> FALSE], t)

\* lock(key, lockTtl, done) at instant t on what the store holds for the key
lock(entry, token, lockTtl, t) ==
  RedisSet(entry, [key |-> <<>>, value |-> token, px |-> lockTtl, nx |-> TRUE], t)

\* unlock(): the entry afterwards
unlock(entry, token, t) ==
  IF KeyLive(entry, t) /\ entry.value = token THEN Absent ELSE entry

(***************************************************************************)
(* State.                                                                  *)
(***************************************************************************)
VARIABLES
  now,        \* the clock, shared by the store and the processes
  store,      \* key -> entry
  call,       \* process -> its call of isAlreadyScheduled / scheduleNextRun
  subscribed, \* process -> its listener is subscribed for expired keys
  inbox,      \* process -> expiry notifications received, not yet handled
  expiries,   \* key -> how many times it has expired
  arms,       \* key -> scheduleNextRun sets that wrote its present entry
  armedUntil, \* key -> nextRunAt of the call that wrote its present entry
  performed,  \* <<name, expiry number, process>> of every perform run
  tmFn, tmPattern, tmLastRunAt, tmClock, tmResult, \* one time computation
  schedules,  \* the registry
  rgOp,       \* the registry function called last
  rgArg,      \* the definition passed to defineSchedule
  rgLoad,     \* the options passed to loadSchedules
  rgBefore,   \* the registry when that call started
  rgReturn,   \* what that call returned
  rgThrown,   \* what that call threw ("" when nothing)
  rgCleared,  \* what the last clearRegistry call removed, for the names followed
  ivOp,       \* isValidSchedule / invokeSchedule called on ivArg
  ivArg,      \* a definition
  ivValid,    \* what isValidSchedule returned
  ivRan,      \* what invokeSchedule did
  sbListeners,\* the handleExpiredKey of each 'message' listener, as added
  sbCalls,    \* each subscribeForScheduleExpiry call: its subscribe and done
  sbArrived,  \* every notification that reached the listener client
  sbInbox,    \* those of them not yet emitted
  sbHandled,  \* the runs of handleExpiredKey
  sbEscaped,  \* an exception left a 'message' listener
  scheduler,  \* `let scheduler`
  listener,   \* `let listener`
  clUuids,    \* how many clients createRedisClient has made
  clClosed,   \* the clients quit has closed
  clOp,       \* the function of redis called last
  clRecreate, \* the recreate option of that call
  clBefore,   \* scheduler and listener when that call started
  clReturn,   \* what that call returned
  clGiven,    \* per role, the clients returned without recreate since quit
  clCalls,    \* how many calls were made
  kyNameA, kyNameB, kyOp, kyKeyA, kyKeyB, \* one key function on two names
  cfConfigured, \* notifyKeyspaceEvents of the process
  cfFlags,    \* the notify-keyspace-events flags of the store
  cfOp,       \* the function called last
  cfDone,     \* what its callback was given
  cfRead,     \* the string the last CONFIG GET returned
  cfEnabled,  \* the flags enabled with success and not changed since
  lkNow,      \* the clock of the store that holds the locks
  lkLocks,    \* lock key -> entry of the store
  lkHeld,     \* the locks acquired and not unlocked: who, key, token, until
  lkIssued,   \* how many lock calls were made
  lkLast      \* the lock call made last and whether it acquired the lock

protoVars ==
  <<now, store, call, subscribed, inbox, expiries, arms, armedUntil, performed>>

timerVars == <<tmFn, tmPattern, tmLastRunAt, tmClock, tmResult>>

regVars ==
  <<schedules, rgOp, rgArg, rgLoad, rgBefore, rgReturn, rgThrown, rgCleared,
    ivOp, ivArg, ivValid, ivRan>>

subVars == <<sbListeners, sbCalls, sbArrived, sbInbox, sbHandled, sbEscaped>>

cliVars ==
  <<scheduler, listener, clUuids, clClosed, clOp, clRecreate, clBefore,
    clReturn, clGiven, clCalls>>

keyVars == <<kyNameA, kyNameB, kyOp, kyKeyA, kyKeyB>>

cfgVars == <<cfConfigured, cfFlags, cfOp, cfDone, cfRead, cfEnabled>>

lockVars == <<lkNow, lkLocks, lkHeld, lkIssued, lkLast>>

libVars == <<subVars, cliVars, keyVars, cfgVars, lockVars>>

vars == <<protoVars, timerVars, regVars, libVars>>

NoCommand == [key |-> <<>>, value |-> <<>>, px |-> NoExpiry, nx |-> FALSE]

IdleCall ==
  [op |-> "none", phase |-> "idle", cmd |-> NoCommand, interval |-> <<>>,
   lastRunAt |-> NoDate, nextRunAt |-> NoDate,
   error |-> "", ttl |-> 0, ok |-> FALSE, seen |-> "", done |-> <<>>]

SlotFree(p) == call[p].phase \in {"idle", "done", "thrown"}

\* what the store holds for a key at an instant, in words
Seen(entry, t) ==
  IF ~KeyLive(entry, t) THEN "absent"
  ELSE IF entry.expireAt = NoExpiry THEN "noexpiry"
  ELSE IF entry.expireAt - t > 0 THEN "armed" ELSE "lastms"

ProtoInit ==
  /\ now = 0
  /\ store = [k \in Keys |-> Absent]
  /\ call = [p \in Procs |-> IdleCall]
  /\ subscribed = [p \in Procs |-> FALSE]
  /\ inbox = [p \in Procs |-> <<>>]
  /\ expiries = [k \in Keys |-> 0]
  /\ arms = [k \in Keys |-> 0]
  /\ armedUntil = [k \in Keys |-> NoDate]
  /\ performed = {}

TimerIdle ==
  /\ tmFn = "none"
  /\ tmPattern = <<>>
  /\ tmLastRunAt = NoDate
  /\ tmClock = <<0>>
  /\ tmResult = Undefined

\* the names whose removal by clearRegistry is remembered
FollowedNames == {SendEmail}

NoLoad == LoadOptns("undefined", "none", <<>>)

NotRun == [performs |-> 0, thrown |-> "", done |-> <<>>]

RegistryIdle ==
  /\ schedules = clearRegistry
  /\ rgOp = "none"
  /\ rgArg = UndefinedOptns
  /\ rgLoad = NoLoad
  /\ rgBefore = clearRegistry
  /\ rgReturn = clearRegistry
  /\ rgThrown = ""
  /\ rgCleared = [n \in FollowedNames |-> UndefinedOptns]

InvokeIdle ==
  /\ ivOp = "none"
  /\ ivArg = UndefinedOptns
  /\ ivValid = FALSE
  /\ ivRan = NotRun

SubscribeIdle ==
  /\ sbListeners = <<>>
  /\ sbCalls = <<>>
  /\ sbArrived = <<>>
  /\ sbInbox = <<>>
  /\ sbHandled = <<>>
  /\ sbEscaped = FALSE

NoClients == [scheduler |-> NoClient, listener |-> NoClient]

NoneGiven == [scheduler |-> {}, listener |-> {}]

ClientsIdle ==
  /\ scheduler = NoClient
  /\ listener = NoClient
  /\ clUuids = 0
  /\ clClosed = {}
  /\ clOp = "none"
  /\ clRecreate = FALSE
  /\ clBefore = NoClients
  /\ clReturn = NoClients
  /\ clGiven = NoneGiven
  /\ clCalls = 0

KeysIdle ==
  /\ kyNameA = <<>>
  /\ kyNameB = <<>>
  /\ kyOp = "none"
  /\ kyKeyA = <<>>
  /\ kyKeyB = <<>>

\* the default of notifyKeyspaceEvents
DefaultFlags == <<"x", "E">>

NoReply == [error |-> "", enabled |-> FALSE]

ConfigIdle ==
  /\ cfConfigured = DefaultFlags
  /\ cfFlags = {}
  /\ cfOp = "none"
  /\ cfDone = NoReply
  /\ cfRead = <<>>
  /\ cfEnabled = <<>>

\* the names locks are taken for
LockNames == {SendEmail, SendReport}

LockKeys ==
  {scheduleLockKeyFor(n) : n \in LockNames} \cup {workLockKeyFor(n) : n \in LockNames}

NoLockCall ==
  [kind |-> "none", name |-> <<>>, key |-> <<>>, by |-> "", acquired |-> FALSE,
   found |-> Absent, at |-> 0, holders |-> {}]

LocksIdle ==
  /\ lkNow = 0
  /\ lkLocks = [k \in LockKeys |-> Absent]
  /\ lkHeld = {}
  /\ lkIssued = 0
  /\ lkLast = NoLockCall

LibIdle == SubscribeIdle /\ ClientsIdle /\ KeysIdle /\ ConfigIdle /\ LocksIdle

Init == ProtoInit /\ TimerIdle /\ RegistryIdle /\ InvokeIdle /\ LibIdle

\* the store deletes an expired key and publishes its expired event to every
\* subscribed listener
Published(k) ==
  [p \in Procs |->
     IF subscribed[p]
     THEN Append(inbox[p], [key |-> k, expiry |-> expiries[k] + 1])
     ELSE inbox[p]]

(***************************************************************************)
(* The expiry protocol: actions.                                           *)
(***************************************************************************)
\* isAlreadyScheduled(optns, done), up to redisClient.pttl(key, cb)
StartIsAlreadyScheduled(p, n) ==
  /\ SlotFree(p)
  /\ call' = [call EXCEPT ![p] =
       [IdleCall EXCEPT !.op = "isAlreadyScheduled", !.phase = "sent",
                        !.cmd = [NoCommand EXCEPT !.key = scheduleExpiryKeyFor(n)]]]
  /\ UNCHANGED <<timerVars, regVars, libVars, now, store, subscribed, inbox, expiries, arms,
                 armedUntil, performed>>

\* the call record scheduleNextRun(optns, done) leaves when it returns or
\* throws; the clock reads `t` at its first `new Date()` and `t + d` later
ScheduleNextRunCall(n, interval, given, t, d) ==
  LET plan == scheduleNextRunPlan(interval, given, <<t, t + d>>) IN
  [IdleCall EXCEPT
     !.op = "scheduleNextRun",
     !.phase = IF plan.thrown THEN "thrown" ELSE "sent",
     !.cmd = IF plan.thrown
             THEN [NoCommand EXCEPT !.key = scheduleExpiryKeyFor(n)]
             ELSE scheduleNextRunCommand(scheduleExpiryKeyFor(n), plan.scheduleDelay),
     !.interval = interval,
     !.lastRunAt = plan.lastRunAt,
     !.nextRunAt = plan.nextRunAt]

\* scheduleNextRun(optns, done), up to redisClient.set(...)
StartScheduleNextRun(p, n, interval, given, d) ==
  /\ SlotFree(p)
  /\ OnGrid(now + d)
  /\ call' = [call EXCEPT ![p] = ScheduleNextRunCall(n, interval, given, now, d)]
  /\ now' = now + d
  /\ UNCHANGED <<timerVars, regVars, libVars, store, subscribed, inbox, expiries, arms,
                 armedUntil, performed>>

\* the store cannot run the command: the reply is an error
StoreFails(p, e) ==
  /\ call[p].phase = "sent"
  /\ call' = [call EXCEPT ![p] =
       [@ EXCEPT !.phase = "replied", !.error = e, !.seen = "failed"]]
  /\ UNCHANGED <<timerVars, regVars, libVars, now, store, subscribed, inbox, expiries, arms,
                 armedUntil, performed>>

\* the store runs the command of a call: PTTL key, or SET key key PX ms NX
StoreExecutes(p) ==
  /\ call[p].phase = "sent"
  /\ LET c == call[p]
         k == c.cmd.key
         entry == store[k]
         expired == KeyExpired(entry, now)
         live == KeyLive(entry, now)
         r == IF c.op = "scheduleNextRun"
              THEN RedisSet(entry, c.cmd, now)
              ELSE [entry |-> IF live THEN entry ELSE Absent,
                    error |-> "", ok |-> FALSE]
     IN  /\ store' = [store EXCEPT ![k] = r.entry]
         /\ call' = [call EXCEPT ![p] =
              [c EXCEPT !.phase = "replied", !.error = r.error, !.ok = r.ok,
                        !.ttl = IF c.op = "isAlreadyScheduled"
                                THEN RedisPttl(entry, now) ELSE 0,
                        !.seen = Seen(entry, now)]]
         /\ inbox' = IF expired THEN Published(k) ELSE inbox
         /\ expiries' = [expiries EXCEPT ![k] = IF expired THEN @ + 1 ELSE @]
         /\ arms' = [arms EXCEPT ![k] =
              (IF live THEN @ ELSE 0) + (IF r.ok THEN 1 ELSE 0)]
         /\ armedUntil' = [armedUntil EXCEPT ![k] =
              IF r.ok THEN c.nextRunAt ELSE IF live THEN @ ELSE NoDate]
  /\ UNCHANGED <<timerVars, regVars, libVars, now, subscribed, performed>>

\* the reply reaches the callback the call gave the client
Callback(p) ==
  /\ call[p].phase = "replied"
  /\ call' = [call EXCEPT ![p] =
       [@ EXCEPT !.phase = "done",
                 !.done = IF call[p].op = "isAlreadyScheduled"
                          THEN isAlreadyScheduledReply(call[p].error, call[p].ttl)
                          ELSE scheduleNextRunReply(call[p].error, call[p].ok,
                                                    call[p].nextRunAt)]]
  /\ UNCHANGED <<timerVars, regVars, libVars, now, store, subscribed, inbox, expiries, arms,
                 armedUntil, performed>>

\* the store finds a key whose TTL has run out
ExpireKey(k) ==
  /\ KeyExpired(store[k], now)
  /\ store' = [store EXCEPT ![k] = Absent]
  /\ inbox' = Published(k)
  /\ expiries' = [expiries EXCEPT ![k] = @ + 1]
  /\ arms' = [arms EXCEPT ![k] = 0]
  /\ armedUntil' = [armedUntil EXCEPT ![k] = NoDate]
  /\ UNCHANGED <<timerVars, regVars, libVars, now, call, subscribed, performed>>

\* time passes
Advance(d) ==
  /\ OnGrid(now + d)
  /\ now' = now + d
  /\ UNCHANGED <<timerVars, regVars, libVars, store, call, subscribed, inbox, expiries, arms,
                 armedUntil, performed>>

\* a test sets the key itself: set(key, key) or set(key, key, 'PX', delay, 'NX')
ExternalSet(k, px, nx) ==
  /\ ~KeyExpired(store[k], now)
  /\ LET r == RedisSet(store[k], [key |-> k, value |-> k, px |-> px, nx |-> nx], now)
     IN  /\ r.ok
         /\ store' = [store EXCEPT ![k] = r.entry]
  /\ arms' = [arms EXCEPT ![k] = 0]
  /\ armedUntil' = [armedUntil EXCEPT ![k] = NoDate]
  /\ UNCHANGED <<timerVars, regVars, libVars, now, call, subscribed, inbox, expiries, performed>>

\* a test clears the store: clear(done)
ExternalClear ==
  /\ \E k \in Keys : KeyLive(store[k], now)
  /\ store' = [k \in Keys |-> IF KeyLive(store[k], now) THEN Absent ELSE store[k]]
  /\ arms' = [k \in Keys |-> IF KeyLive(store[k], now) THEN 0 ELSE arms[k]]
  /\ armedUntil' = [k \in Keys |->
       IF KeyLive(store[k], now) THEN NoDate ELSE armedUntil[k]]
  /\ UNCHANGED <<timerVars, regVars, libVars, now, call, subscribed, inbox, expiries, performed>>

\* processes calling isAlreadyScheduled and scheduleNextRun on one store
Next ==
  \/ \E p \in Procs, n \in Names : StartIsAlreadyScheduled(p, n)
  \/ \E p \in Procs, n \in Names, i \in Intervals, g \in LastRunAts, d \in 0..MaxDrift :
       StartScheduleNextRun(p, n, i, g, d)
  \/ \E p \in Procs, e \in StoreErrors : StoreFails(p, e)
  \/ \E p \in Procs : StoreExecutes(p)
  \/ \E p \in Procs : Callback(p)
  \/ \E k \in Keys : ExpireKey(k)
  \/ \E d \in ClockSteps : Advance(d)
  \/ \E k \in Keys : ExternalSet(k, NoExpiry, FALSE)
  \/ \E k \in Keys : ExternalSet(k, TestDelay, TRUE)
  \/ ExternalClear

Spec == Init /\ [][Next]_vars


(***************************************************************************)
(* The start protocol: every process subscribes for expired keys, arms the *)
(* schedules that are not armed yet and, on each expiry notification,      *)
(* invokes the schedule and arms it again.                                 *)
(***************************************************************************)
\* subscribeForScheduleExpiry({handleExpiredKey}, done)
Subscribe(p) ==
  /\ ~subscribed[p]
  /\ subscribed' = [subscribed EXCEPT ![p] = TRUE]
  /\ UNCHANGED <<timerVars, regVars, libVars, now, store, call, inbox, expiries, arms, armedUntil,
                 performed>>

\* start: isAlreadyScheduled said no, so scheduleNextRun(definition)
BootstrapArm(p, n, d) ==
  /\ call[p].op = "isAlreadyScheduled"
  /\ call[p].phase = "done"
  /\ call[p].cmd.key = scheduleExpiryKeyFor(n)
  /\ call[p].done = <<Done("", TRUE, FALSE, NoDate)>>
  /\ StartScheduleNextRun(p, n, Registry[n].interval, NoDate, d)

\* the message listener of subscribeForScheduleExpiry runs handleExpiredKey;
\* the handler of the start protocol resolves the key, looks the schedule up,
\* invokes it, then calls scheduleNextRun
HandleExpiredKey(p, d) ==
  /\ subscribed[p]
  /\ inbox[p] # <<>>
  /\ SlotFree(p)
  /\ OnGrid(now + d)
  /\ LET msg == Head(inbox[p])
         hit == NamesOfKey(msg.key)
     IN  /\ inbox' = [inbox EXCEPT ![p] = Tail(@)]
         /\ IF hit = {}
            THEN UNCHANGED <<now, call, performed>>
            ELSE LET n == CHOOSE x \in hit : TRUE
                     ran == invokeSchedule(Registry[n])
                 IN  /\ performed' = IF ran.performs > 0
                                     THEN performed \cup {<<n, msg.expiry, p>>}
                                     ELSE performed
                     /\ call' = [call EXCEPT ![p] =
                          ScheduleNextRunCall(n, Registry[n].interval, NoDate, now, d)]
                     /\ now' = now + d
  /\ UNCHANGED <<timerVars, regVars, libVars, store, subscribed, expiries, arms, armedUntil>>

NextStart ==
  \/ \E p \in Procs : Subscribe(p)
  \/ \E p \in Procs, n \in Names : StartIsAlreadyScheduled(p, n)
  \/ \E p \in Procs, n \in Names, d \in 0..MaxDrift : BootstrapArm(p, n, d)
  \/ \E p \in Procs, d \in 0..MaxDrift : HandleExpiredKey(p, d)
  \/ \E p \in Procs : StoreExecutes(p)
  \/ \E p \in Procs : Callback(p)
  \/ \E k \in Keys : ExpireKey(k)
  \/ \E d \in ClockSteps : Advance(d)

SpecStart == Init /\ [][NextStart]_vars

(***************************************************************************)
(* The time calculator on its own: one computation from any pattern, any   *)
(* lastRunAt and any clock.                                                *)
(***************************************************************************)
TimerInstants == {0, 1, 999, 1000, 1001, 59999, 60000}

TimerClocks == {<<t, t + d>> : t \in TimerInstants, d \in 0..MaxDrift}

InitTimers ==
  /\ ProtoInit
  /\ LibIdle
  /\ RegistryIdle
  /\ InvokeIdle
  /\ tmFn = "none"
  /\ tmPattern \in Patterns
  /\ tmLastRunAt \in TimerInstants \cup {NoDate}
  /\ tmClock \in TimerClocks
  /\ tmResult = Undefined

CallNextCronRunTimeFor ==
  /\ tmFn = "none"
  /\ tmFn' = "nextCronRunTimeFor"
  /\ tmResult' = nextCronRunTimeFor(tmPattern, tmLastRunAt, tmClock)
  /\ UNCHANGED <<protoVars, regVars, libVars, tmPattern, tmLastRunAt, tmClock>>

CallNextHumanRunTimeFor ==
  /\ tmFn = "none"
  /\ tmFn' = "nextHumanRunTimeFor"
  /\ tmResult' = nextHumanRunTimeFor(tmPattern, tmLastRunAt, tmClock)
  /\ UNCHANGED <<protoVars, regVars, libVars, tmPattern, tmLastRunAt, tmClock>>

CallNextRunTimeFor ==
  /\ tmFn = "none"
  /\ tmFn' = "nextRunTimeFor"
  /\ tmResult' = nextRunTimeFor(tmPattern, tmLastRunAt, tmClock)
  /\ UNCHANGED <<protoVars, regVars, libVars, tmPattern, tmLastRunAt, tmClock>>

\* scheduleNextRun({interval, lastRunAt}, done) with a store that accepts the
\* set: what done receives, or the exception the call throws
ScheduleNextRunReports(interval, given, clk) ==
  LET plan == scheduleNextRunPlan(interval, given, clk) IN
  IF plan.thrown
  THEN Thrown("TypeError: Cannot read property 'getTime' of undefined")
  ELSE LET done == scheduleNextRunReply("", TRUE, plan.nextRunAt) IN
       IF done[1].hasResult THEN DateOf(done[1].nextRunAt) ELSE Undefined

CallScheduleNextRun ==
  /\ tmFn = "none"
  /\ tmFn' = "scheduleNextRun"
  /\ tmResult' = ScheduleNextRunReports(tmPattern, tmLastRunAt, tmClock)
  /\ UNCHANGED <<protoVars, regVars, libVars, tmPattern, tmLastRunAt, tmClock>>

NextTimers ==
  \/ CallNextCronRunTimeFor
  \/ CallNextHumanRunTimeFor
  \/ CallNextRunTimeFor
  \/ CallScheduleNextRun

SpecTimers == InitTimers /\ [][NextTimers]_vars


(***************************************************************************)
(* The registry on its own: any sequence of clearRegistry, defineSchedule  *)
(* and loadSchedules calls of one process.                                 *)
(***************************************************************************)
\* most source files a schedules directory holds
MaxFiles == 2

\* valid definitions: a name, an interval, a function
ValidDefinitions ==
  {Optns("object", n, OneSecond, "ok", "none") : n \in RegistryNames}
    \cup {Optns("object", n, TwoSeconds, "fails", "none") : n \in RegistryNames}
    \cup {Optns("object", SendEmail, OneSecond, "echo", "d1")}

\* what is left of a definition without one field, or without two, and a
\* perform that is a string
Without(optns) ==
  {Optns("object", <<>>, optns.interval, optns.perform, optns.data),
   Optns("object", optns.name, <<>>, optns.perform, optns.data),
   Optns("object", optns.name, optns.interval, "none", optns.data),
   Optns("object", optns.name, optns.interval, "notfn", optns.data),
   Optns("object", optns.name, <<>>, "none", optns.data),
   Optns("object", <<>>, optns.interval, "none", optns.data),
   Optns("object", <<>>, <<>>, optns.perform, optns.data)}

\* what a caller passes to defineSchedule, isValidSchedule, invokeSchedule
DefinitionInputs ==
  {Null, UndefinedOptns, EmptyString, BlankString, EmptyObject}
    \cup ValidDefinitions
    \cup Without(Optns("object", SendEmail, TwoSeconds, "ok", "none"))

\* what a source file exports: with or without a name, valid or not
FileExports ==
  {Optns("object", <<>>, TwoSeconds, "ok", "none"),
   Optns("object", SendReport, OneSecond, "fails", "none"),
   Optns("object", <<>>, TwoSeconds, "none", "none")}

\* the place of a filename in the alphabet
Rank(f) ==
  CASE f = Constructor -> 1
    [] f = SendEmail -> 2
    [] f = SendReport -> 3

\* the listings of a directory of at most k files, in alphabetical order
RECURSIVE FileLists(_)
FileLists(k) ==
  IF k = 0 THEN {<<>>}
  ELSE LET shorter == FileLists(k - 1) IN
       shorter \cup
         {Append(l, SourceFile(f, e)) :
            l \in {x \in shorter : Len(x) = k - 1},
            f \in RegistryNames,
            e \in FileExports}

Ascending(l) ==
  \A i \in 1..Len(l), j \in 1..Len(l) :
    i < j => Rank(l[i].filename) < Rank(l[j].filename)

Reverse(l) == [i \in 1..Len(l) |-> l[Len(l) + 1 - i]]

\* a directory is listed in the order the file system gives: alphabetical
\* or the reverse
Listings ==
  LET sorted == {l \in FileLists(MaxFiles) : Ascending(l)} IN
  sorted \cup {Reverse(l) : l \in sorted}

LoadInputs ==
  {LoadOptns("undefined", "none", <<>>),
   LoadOptns("object", "missing", <<>>),
   LoadOptns("object", "broken", <<>>)}
    \cup {LoadOptns("object", "ok", l) : l \in Listings}

CallClearRegistry ==
  /\ schedules' = clearRegistry
  /\ rgOp' = "clearRegistry"
  /\ rgArg' = UndefinedOptns
  /\ rgLoad' = NoLoad
  /\ rgBefore' = schedules
  /\ rgReturn' = schedules'
  /\ rgThrown' = ""
  /\ rgCleared' = [n \in FollowedNames |-> schedules[n]]
  /\ UNCHANGED <<protoVars, timerVars, libVars, ivOp, ivArg, ivValid, ivRan>>

CallDefineSchedule(optns) ==
  /\ schedules' = defineSchedule(schedules, optns)
  /\ rgOp' = "defineSchedule"
  /\ rgArg' = optns
  /\ rgLoad' = NoLoad
  /\ rgBefore' = schedules
  /\ rgReturn' = schedules'
  /\ rgThrown' = ""
  /\ UNCHANGED <<protoVars, timerVars, libVars, rgCleared, ivOp, ivArg, ivValid, ivRan>>

CallLoadSchedules(optns) ==
  /\ LET loaded == loadSchedules(schedules, optns) IN
       /\ schedules' = loaded.schedules
       /\ rgThrown' = loaded.thrown
  /\ rgOp' = "loadSchedules"
  /\ rgArg' = UndefinedOptns
  /\ rgLoad' = optns
  /\ rgBefore' = schedules
  /\ rgReturn' = schedules'
  /\ UNCHANGED <<protoVars, timerVars, libVars, rgCleared, ivOp, ivArg, ivValid, ivRan>>

NextRegistry ==
  \/ CallClearRegistry
  \/ \E optns \in DefinitionInputs : CallDefineSchedule(optns)
  \/ \E optns \in LoadInputs : CallLoadSchedules(optns)

SpecRegistry == Init /\ [][NextRegistry]_vars

(***************************************************************************)
(* isValidSchedule and invokeSchedule on their own: one call on any        *)
(* definition.                                                             *)
(***************************************************************************)
InvokeInputs ==
  DefinitionInputs
    \cup {Optns("object", SendEmail, TwoSeconds, pf, d) :
            pf \in PerformFunctions \cup {"none", "notfn"}, d \in {"none", "d1"}}
    \cup {Optns("object", n, <<>>, pf, "d1") :
            n \in {<<>>, SendReport}, pf \in PerformFunctions}

InitInvoke ==
  /\ ProtoInit
  /\ LibIdle
  /\ TimerIdle
  /\ RegistryIdle
  /\ ivOp = "none"
  /\ ivArg \in InvokeInputs
  /\ ivValid = FALSE
  /\ ivRan = NotRun

CallIsValidSchedule ==
  /\ ivOp = "none"
  /\ ivOp' = "isValidSchedule"
  /\ ivValid' = isValidSchedule(ivArg)
  /\ UNCHANGED <<protoVars, timerVars, libVars, schedules, rgOp, rgArg, rgLoad, rgBefore,
                 rgReturn, rgThrown, rgCleared, ivArg, ivRan>>

CallInvokeSchedule ==
  /\ ivOp = "none"
  /\ ivOp' = "invokeSchedule"
  /\ ivRan' = invokeSchedule(ivArg)
  /\ UNCHANGED <<protoVars, timerVars, libVars, schedules, rgOp, rgArg, rgLoad, rgBefore,
                 rgReturn, rgThrown, rgCleared, ivArg, ivValid>>

NextInvoke ==
  \/ CallIsValidSchedule
  \/ CallInvokeSchedule

SpecInvoke == InitInvoke /\ [][NextInvoke]_vars


(***************************************************************************)
(* Properties.                                                             *)
(***************************************************************************)
ScheduleNextRunCalls(ph) ==
  {p \in Procs : call[p].op = "scheduleNextRun" /\ call[p].phase \in ph}

IsAlreadyScheduledCalls(ph) ==
  {p \in Procs : call[p].op = "isAlreadyScheduled" /\ call[p].phase \in ph}

\* C1: with every process subscribed and following the start protocol, the
\* perform of a schedule runs at most once, over all processes, for each
\* expiry of the schedule's key.
C1_PerformOncePerExpiry ==
  \A x \in performed, y \in performed :
    (x[1] = y[1] /\ x[2] = y[2]) => x[3] = y[3]

\* C2: of two scheduleNextRun calls racing for an absent key with the same
\* lastRunAt, the one whose set created the key and the one whose set found
\* it are told different things by done.
C2_WinnerDiffersFromLoser ==
  \A p \in ScheduleNextRunCalls({"done"}), q \in ScheduleNextRunCalls({"done"}) :
    ( /\ p # q
      /\ call[p].cmd.key = call[q].cmd.key
      /\ call[p].lastRunAt = call[q].lastRunAt
      /\ call[p].error = "" /\ call[p].ok
      /\ call[q].error = "" /\ ~call[q].ok
      /\ arms[call[p].cmd.key] = 1 )
    => call[p].done # call[q].done

\* the step in which the store runs the set of p's scheduleNextRun
SetRuns(p) ==
  /\ call[p].op = "scheduleNextRun"
  /\ call[p].phase = "sent"
  /\ call'[p].phase = "replied"
  /\ call'[p].error = ""

\* C3: in any interleaving, a set of scheduleNextRun that finds the expiry
\* key present leaves the key's value and expiry as they are, and at most one
\* scheduleNextRun set writes the key during one life of the key.
C3_ArmedOncePerCycle ==
  [][\A p \in Procs :
       SetRuns(p) =>
         LET k == call[p].cmd.key IN
         /\ KeyLive(store[k], now) => (store'[k] = store[k] /\ ~call'[p].ok)
         /\ ~KeyLive(store[k], now) => (call'[p].ok /\ store'[k].exists)
         /\ arms'[k] <= 1]_vars

\* a set of scheduleNextRun has found the key armed by another call
C3_Witness ==
  \E p \in ScheduleNextRunCalls({"replied"}) :
    /\ call[p].error = "" /\ ~call[p].ok
    /\ call[p].seen = "armed"
    /\ arms[call[p].cmd.key] = 1

\* C4: isAlreadyScheduled reports true exactly when the expiry key exists
\* with a remaining TTL above zero: false for no key, an expired key, a key
\* without expiry and a key in its last millisecond.
C4_ScheduledIffPositiveTtl ==
  \A p \in IsAlreadyScheduledCalls({"done"}) :
    call[p].error = "" =>
      /\ Len(call[p].done) = 1
      /\ call[p].done[1].error = ""
      /\ call[p].done[1].hasResult
      /\ call[p].done[1].isScheduled <=> (call[p].seen = "armed")

\* isAlreadyScheduled has answered for a key that has no expiry, and for a
\* key that is armed
C4_Witness ==
  /\ \E p \in IsAlreadyScheduledCalls({"done"}) :
       call[p].seen = "noexpiry" /\ ~call[p].done[1].isScheduled
  /\ \E p \in IsAlreadyScheduledCalls({"done"}) :
       call[p].seen = "armed" /\ call[p].done[1].isScheduled

\* what isAlreadyScheduled reports when the store runs its pttl now
IsScheduledNow(k) ==
  isAlreadyScheduledReply("", RedisPttl(store[k], now))[1].isScheduled

\* a scheduleNextRun whose set the store runs now arms the key
CanArmNow(k) ==
  RedisSet(store[k], scheduleNextRunCommand(k, humanInterval(OneSecond)), now).ok

\* C5 as stated: no key, not scheduled; after the scheduleNextRun that armed
\* the key, scheduled at every instant before nextRunAt; once nextRunAt has
\* passed, not scheduled and a new scheduleNextRun can arm the key.
C5_FalseOnceNextRunAtPassed ==
  \A k \in Keys :
    /\ ~store[k].exists => ~IsScheduledNow(k)
    /\ arms[k] = 1 =>
         /\ now < armedUntil[k] => IsScheduledNow(k)
         /\ now > armedUntil[k] => (~IsScheduledNow(k) /\ CanArmNow(k))

\* C5 (amended): no key, not scheduled; after the scheduleNextRun that armed
\* the key, scheduled at every instant before nextRunAt; the key's TTL ends
\* at nextRunAt or later, and once it has ended, not scheduled and a new
\* scheduleNextRun can arm the key.
C5_FalseOnceTtlEnded ==
  \A k \in Keys :
    /\ ~store[k].exists => ~IsScheduledNow(k)
    /\ arms[k] = 1 =>
         /\ now < armedUntil[k] => IsScheduledNow(k)
         /\ store[k].expireAt >= armedUntil[k]
         /\ now > store[k].expireAt => (~IsScheduledNow(k) /\ CanArmNow(k))

\* the key armed by scheduleNextRun has outlived its TTL, and a call of
\* isAlreadyScheduled has said so
C5_Witness ==
  \E k \in Keys :
    /\ arms[k] = 1
    /\ now > store[k].expireAt
    /\ \E p \in IsAlreadyScheduledCalls({"sent"}) : call[p].cmd.key = k

\* C6: a scheduleNextRun whose set found the key present calls done without
\* error; done gets an error exactly when the store command failed.
C6_LosingIsNoError ==
  \A p \in ScheduleNextRunCalls({"done"}) :
    /\ Len(call[p].done) = 1
    /\ call[p].done[1].error = call[p].error
    /\ (call[p].error = "" /\ ~call[p].ok) => call[p].done[1].error = ""

\* a scheduleNextRun that lost the race is done, another one whose store
\* command failed is done
C6_Witness ==
  /\ \E p \in ScheduleNextRunCalls({"done"}) :
       call[p].error = "" /\ ~call[p].ok /\ call[p].seen = "armed"
  /\ \E p \in ScheduleNextRunCalls({"done"}) : call[p].error # ""

\* C7: when the store command fails, isAlreadyScheduled and scheduleNextRun
\* call done once, with that error and no result.
C7_StoreErrorReachesDone ==
  \A p \in Procs :
    (call[p].phase = "done" /\ call[p].error # "") =>
      call[p].done = <<Done(call[p].error, FALSE, FALSE, NoDate)>>

\* both operations have completed a call whose store command failed
C7_Witness ==
  /\ \E p \in IsAlreadyScheduledCalls({"done"}) : call[p].error \in StoreErrors
  /\ \E p \in ScheduleNextRunCalls({"done"}) : call[p].error \in StoreErrors

\* neither grammar parses the interval
Unparseable(interval) == ~CronParses(interval) /\ humanInterval(interval) = 0

\* C8: scheduleNextRun with an interval neither grammar parses does not throw:
\* it calls done with an error, and sends no command to the store.
C8_UnparseableReachesDone ==
  \A p \in ScheduleNextRunCalls({"sent", "replied", "done", "thrown"}) :
    Unparseable(call[p].interval) =>
      /\ call[p].phase = "done"
      /\ Len(call[p].done) = 1
      /\ call[p].done[1].error # ""
      /\ call[p].seen = ""


\* the grammar of the function called parses the pattern
ParsesFor(fn, pattern) ==
  IF fn = "nextCronRunTimeFor" THEN CronParses(pattern)
  ELSE humanInterval(pattern) # 0

\* the next instant counted from an instant, without looking at the clock
NaiveNext(fn, pattern, from) ==
  IF fn = "nextCronRunTimeFor" THEN getNextDateFrom(pattern, from)
  ELSE from + humanInterval(pattern)

\* lastRunAt as the function reads it
LastRunOf(given, clk) == IF given = NoDate THEN clk[1] ELSE given

\* C9: for every pattern its grammar parses and every lastRunAt,
\* nextCronRunTimeFor and nextHumanRunTimeFor return an instant strictly
\* later than the current time; when the next instant counted from lastRunAt
\* is not, they return the one counted from the current time.
C9_StrictlyFuture ==
  (tmFn \in {"nextCronRunTimeFor", "nextHumanRunTimeFor"}
     /\ ParsesFor(tmFn, tmPattern)) =>
    /\ tmResult.kind = "date"
    /\ tmResult.t > tmClock[1]
    /\ NaiveNext(tmFn, tmPattern, LastRunOf(tmLastRunAt, tmClock)) <= tmClock[1]
         => tmResult.t = NaiveNext(tmFn, tmPattern, tmClock[1])

\* C10 as stated: nextHumanRunTimeFor(pattern, T) is T + 1000 for "1 second"
\* and T + 300000 for "5 minutes", and scheduleNextRun with "1 second" and
\* lastRunAt T reports nextRunAt - T = 1000, for every T.
C10_ExactForEveryLastRunAt ==
  /\ (tmFn = "nextHumanRunTimeFor" /\ tmLastRunAt # NoDate) =>
       /\ tmPattern = OneSecond => tmResult = DateOf(tmLastRunAt + 1000)
       /\ tmPattern = FiveMinutes => tmResult = DateOf(tmLastRunAt + 300000)
  /\ (tmFn = "scheduleNextRun" /\ tmLastRunAt # NoDate /\ tmPattern = OneSecond) =>
       (tmResult.kind = "date" /\ tmResult.t - tmLastRunAt = 1000)

\* C10 (amended): the same, for every T whose T + duration is strictly later
\* than the time the clock shows when the function looks at it.
C10_ExactWhenStillAhead ==
  /\ (tmFn = "nextHumanRunTimeFor" /\ tmLastRunAt # NoDate) =>
       /\ (tmPattern = OneSecond /\ tmLastRunAt + 1000 > tmClock[1])
            => tmResult = DateOf(tmLastRunAt + 1000)
       /\ (tmPattern = FiveMinutes /\ tmLastRunAt + 300000 > tmClock[1])
            => tmResult = DateOf(tmLastRunAt + 300000)
  /\ (tmFn = "scheduleNextRun" /\ tmLastRunAt # NoDate /\ tmPattern = OneSecond
        /\ tmLastRunAt + 1000 > tmClock[2]) =>
       (tmResult.kind = "date" /\ tmResult.t - tmLastRunAt = 1000)

\* nextHumanRunTimeFor("5 minutes", T) has returned a date for a T that lies
\* before the current time
C10_Witness ==
  /\ tmFn = "nextHumanRunTimeFor"
  /\ tmPattern = FiveMinutes
  /\ tmLastRunAt # NoDate /\ tmLastRunAt < tmClock[1]
  /\ tmResult.kind = "date"


\* the seconds field and the minute of an instant (UTC)
SecondsField(t) == (t \div 1000) % 60

MinuteOf(t) == t \div 60000

\* C11 as stated: for every lastRunAt T, nextCronRunTimeFor returns the
\* soonest matching instant strictly after T: with "* * * * * *" its seconds
\* field is one more than that of T (modulo 60), with "* * * * *" it lies in
\* a minute after that of T.
C11_NextMatchForEveryLastRunAt ==
  (tmFn = "nextCronRunTimeFor" /\ tmLastRunAt # NoDate) =>
    /\ tmPattern = EverySecond =>
         /\ tmResult.kind = "date"
         /\ tmResult.t > tmLastRunAt /\ tmResult.t - tmLastRunAt <= 1000
         /\ SecondsField(tmResult.t) = (SecondsField(tmLastRunAt) + 1) % 60
    /\ tmPattern = EveryMinute =>
         /\ tmResult.kind = "date"
         /\ tmResult.t > tmLastRunAt /\ tmResult.t - tmLastRunAt <= 60000
         /\ MinuteOf(tmResult.t) > MinuteOf(tmLastRunAt)

\* C11 (amended): the same, for every T whose next match is strictly later
\* than the time the clock shows when the function looks at it.
C11_NextMatchWhenStillAhead ==
  (tmFn = "nextCronRunTimeFor" /\ tmLastRunAt # NoDate) =>
    /\ (tmPattern = EverySecond
          /\ ((tmLastRunAt \div 1000) + 1) * 1000 > tmClock[1]) =>
         /\ tmResult.kind = "date"
         /\ tmResult.t > tmLastRunAt /\ tmResult.t - tmLastRunAt <= 1000
         /\ tmResult.t % 1000 = 0
         /\ SecondsField(tmResult.t) = (SecondsField(tmLastRunAt) + 1) % 60
    /\ (tmPattern = EveryMinute
          /\ ((tmLastRunAt \div 60000) + 1) * 60000 > tmClock[1]) =>
         /\ tmResult.kind = "date"
         /\ tmResult.t > tmLastRunAt /\ tmResult.t - tmLastRunAt <= 60000
         /\ tmResult.t % 60000 = 0
         /\ MinuteOf(tmResult.t) > MinuteOf(tmLastRunAt)

\* nextCronRunTimeFor("* * * * * *", T) has returned a date for a T in the
\* last second of a minute: the seconds field wraps to 0
C11_Witness ==
  /\ tmFn = "nextCronRunTimeFor"
  /\ tmPattern = EverySecond
  /\ tmLastRunAt # NoDate /\ SecondsField(tmLastRunAt) = 59
  /\ tmResult.kind = "date" /\ SecondsField(tmResult.t) = 0

\* C12: nextRunTimeFor returns what nextCronRunTimeFor returns whenever that
\* succeeds; it returns what nextHumanRunTimeFor returns only when the cron
\* computation fails; when both fail it returns undefined; it never throws.
C12_CronFirstThenHuman ==
  tmFn = "nextRunTimeFor" =>
    LET cron == nextCronRunTimeFor(tmPattern, tmLastRunAt, tmClock)
        human == nextHumanRunTimeFor(tmPattern, tmLastRunAt, tmClock)
    IN  /\ tmResult.kind # "throw"
        /\ cron.kind = "date" => tmResult = cron
        /\ (cron.kind = "throw" /\ human.kind = "date") => tmResult = human
        /\ (cron.kind = "throw" /\ human.kind = "throw") => tmResult = Undefined
        /\ (tmPattern = EverySecond /\ tmLastRunAt = 1000 /\ tmClock[1] = 1000)
             => tmResult = DateOf(2000)
        /\ (tmPattern = OneSecond /\ tmLastRunAt = 1000 /\ tmClock[1] = 1000)
             => tmResult = DateOf(2000)
        /\ tmPattern = BadUnit => tmResult = Undefined

\* nextRunTimeFor has fallen back to the human-interval grammar
C12_Witness ==
  /\ tmFn = "nextRunTimeFor"
  /\ tmPattern = OneSecond
  /\ nextCronRunTimeFor(tmPattern, tmLastRunAt, tmClock).kind = "throw"
  /\ tmResult.kind = "date"


\* a definition has a non-empty name, a non-empty interval and a function
\* as perform
HasThreeFields(optns) ==
  /\ optns.kind = "object"
  /\ optns.name # <<>>
  /\ optns.interval # <<>>
  /\ optns.perform \in {"ok", "echo", "fails", "throws", "hangs", "callsThenThrows"}

\* the registry with no entry
NoEntries == [n \in RegistryNames |-> UndefinedOptns]

\* C13: isValidSchedule(def) is true exactly when def has a non-empty name, a
\* non-empty interval and a function as perform; it is false for null,
\* undefined, an empty object and a string.
C13_ValidIffThreeFields ==
  ivOp = "isValidSchedule" =>
    /\ ivValid <=> HasThreeFields(ivArg)
    /\ ivArg \in {Null, UndefinedOptns, EmptyObject, EmptyString, BlankString}
         => ~ivValid

\* isValidSchedule has said no to a definition whose perform is a string
C13_Witness ==
  /\ ivOp = "isValidSchedule"
  /\ ivArg.kind = "object" /\ ivArg.name # <<>> /\ ivArg.interval # <<>>
  /\ ivArg.perform = "notfn"
  /\ ~ivValid

\* C14: a defineSchedule or loadSchedules call leaves every entry the
\* registry held when the call started as it was.
C14_FirstWriteWins ==
  rgOp \in {"defineSchedule", "loadSchedules"} =>
    \A n \in RegistryNames :
      rgBefore[n] # UndefinedOptns => schedules[n] = rgBefore[n]

\* defineSchedule was given a valid definition, different from the stored
\* one, for a name that is registered
C14_Witness ==
  /\ rgOp = "defineSchedule"
  /\ HasThreeFields(rgArg)
  /\ rgBefore[rgArg.name] # UndefinedOptns
  /\ rgBefore[rgArg.name].interval # rgArg.interval
  /\ rgBefore[rgArg.name].perform # rgArg.perform
  /\ schedules[rgArg.name] = rgBefore[rgArg.name]

\* C15: defineSchedule called with an invalid definition does not throw,
\* leaves the registry as it was and returns it.
C15_InvalidIsIgnored ==
  (rgOp = "defineSchedule" /\ ~HasThreeFields(rgArg)) =>
    /\ rgThrown = ""
    /\ schedules = rgBefore
    /\ rgReturn = schedules

\* defineSchedule was given a definition whose perform is a string, for a
\* name that is not registered, while the registry held another entry
C15_Witness ==
  /\ rgOp = "defineSchedule"
  /\ rgArg.kind = "object" /\ rgArg.name = SendEmail /\ rgArg.perform = "notfn"
  /\ rgBefore[SendEmail] = UndefinedOptns
  /\ rgBefore[SendReport] # UndefinedOptns
  /\ schedules = rgBefore

\* C16: clearRegistry leaves the registry empty whatever it held; a name it
\* removed and that was not registered since is registered by the next valid
\* defineSchedule for it, with the definition of that call.
C16_ClearThenRegisterAgain ==
  /\ rgOp = "clearRegistry" => (schedules = NoEntries /\ rgReturn = NoEntries)
  /\ \A n \in FollowedNames :
       ( /\ rgOp = "defineSchedule"
         /\ HasThreeFields(rgArg) /\ rgArg.name = n
         /\ rgCleared[n] # UndefinedOptns
         /\ rgBefore[n] = UndefinedOptns )
       => schedules[n] = rgArg

\* a name removed by clearRegistry has been registered again with another
\* definition
C16_Witness ==
  /\ rgOp = "defineSchedule"
  /\ HasThreeFields(rgArg) /\ rgArg.name = SendEmail
  /\ rgCleared[SendEmail] # UndefinedOptns
  /\ rgCleared[SendEmail] # rgArg
  /\ rgBefore[SendEmail] = UndefinedOptns
  /\ schedules[SendEmail] = rgArg

\* the definition loadSchedules makes of the i-th source of a listing: the
\* export, under its own name or else under the filename
Discovered(files, i) ==
  [files[i].exported EXCEPT
     !.kind = "object",
     !.name = IF @ # <<>> THEN @ ELSE files[i].filename]

\* C17: after loadSchedules, every discovered definition that is valid, whose
\* name was not registered before the call and that is the first of the
\* listing with that name is stored under that name; nothing else is added.
C17_EachDiscoveredRegistered ==
  (rgOp = "loadSchedules" /\ rgLoad.kind = "object" /\ rgLoad.dir = "ok") =>
    LET files == rgLoad.files
        first(i) == \A j \in 1..(i - 1) :
                      ~(HasThreeFields(Discovered(files, j))
                        /\ Discovered(files, j).name = Discovered(files, i).name)
    IN  /\ \A i \in 1..Len(files) :
             ( /\ HasThreeFields(Discovered(files, i))
               /\ rgBefore[Discovered(files, i).name] = UndefinedOptns
               /\ first(i) )
             => schedules[Discovered(files, i).name] = Discovered(files, i)
        /\ \A n \in RegistryNames :
             schedules[n] # rgBefore[n] =>
               \E i \in 1..Len(files) :
                 /\ HasThreeFields(Discovered(files, i))
                 /\ schedules[n] = Discovered(files, i)

\* C18: loadSchedules does not throw; with no options, a missing directory or
\* a source that fails to load it leaves the registry as it was; it returns
\* the registry, and every entry registered before the call is unchanged.
C18_LoadNeverThrows ==
  rgOp = "loadSchedules" =>
    /\ rgThrown = ""
    /\ rgReturn = schedules
    /\ (rgLoad.kind = "undefined" \/ rgLoad.dir \in {"missing", "broken"})
         => schedules = rgBefore
    /\ \A n \in RegistryNames :
         rgBefore[n] # UndefinedOptns => schedules[n] = rgBefore[n]

\* loadSchedules was pointed at a missing directory while the registry held
\* an entry
C18_Witness ==
  /\ rgOp = "loadSchedules"
  /\ rgLoad.kind = "object" /\ rgLoad.dir = "missing"
  /\ rgBefore # NoEntries
  /\ schedules = rgBefore

\* C19: invokeSchedule called with an invalid definition calls done once, with
\* the error 'Invalid schedule definition', does not run perform, does not
\* throw and leaves the store alone.
C19_InvalidDefinitionReported ==
  (ivOp = "invokeSchedule" /\ ~HasThreeFields(ivArg)) =>
    /\ ivRan.done = <<[error |-> "Invalid schedule definition", result |-> "none"]>>
    /\ ivRan.performs = 0
    /\ ivRan.thrown = ""
    /\ \A k \in Keys : ~store[k].exists

\* invokeSchedule was given a definition that has a function as perform but
\* no interval
C19_Witness ==
  /\ ivOp = "invokeSchedule"
  /\ ivArg.kind = "object" /\ ivArg.interval = <<>>
  /\ ivArg.perform \in {"ok", "throws"}
  /\ Len(ivRan.done) = 1

\* C20: for a valid definition invokeSchedule gives done the error perform
\* throws, the error perform passes to its callback, or (null, result) when
\* perform calls back with (null, result); it does not throw itself.
C20_PerformOutcomeReachesDone ==
  (ivOp = "invokeSchedule" /\ HasThreeFields(ivArg)) =>
    /\ ivRan.thrown = ""
    /\ ivArg.perform = "throws" =>
         ivRan.done = <<[error |-> "Thrown", result |-> "none"]>>
    /\ ivArg.perform = "fails" =>
         ivRan.done = <<[error |-> "Failed", result |-> "none"]>>
    /\ ivArg.perform = "ok" =>
         ivRan.done = <<[error |-> "", result |-> "{}"]>>
    /\ ivArg.perform = "echo" =>
         ivRan.done = <<[error |-> "",
                         result |-> IF ivArg.data = "none" THEN "{}" ELSE ivArg.data]>>

\* invokeSchedule was given a valid definition whose perform throws
C20_Witness ==
  /\ ivOp = "invokeSchedule"
  /\ HasThreeFields(ivArg)
  /\ ivArg.perform = "throws"
  /\ Len(ivRan.done) = 1 /\ ivRan.done[1].error = "Thrown"

\* C21: a call of invokeSchedule invokes done at most once, whatever perform
\* does, a perform that calls its callback and then throws included.
C21_DoneAtMostOnce ==
  ivOp = "invokeSchedule" => Len(ivRan.done) <= 1

(***************************************************************************)
(* subscribeForScheduleExpiry in one process: calls of it, the answers of  *)
(* the store to their subscribe commands, notifications reaching the       *)
(* listener client, and the client emitting them as 'message' events.      *)
(***************************************************************************)
MaxSubscriptions == 2

MaxNotifications == 3

\* the database of withDefaults
DefaultDb == "0"

\* a channel other users of the listener client have subscribed it to
OtherChannel == <<"news">>

\* a key of the store that belongs to no schedule
ForeignKey == <<"sessions", "42">>

Notification(channel, expiredKey) == [channel |-> channel, expiredKey |-> expiredKey]

Notifications ==
  {Notification(expiredSubscriptionKeyFor(DefaultDb), k) : k \in Keys \cup {ForeignKey}}
    \cup {Notification(OtherChannel, <<"hello">>)}

\* a call: where its subscribe command is and the invocations of its done
Subscription(phase, done) == [phase |-> phase, done |-> done]

\* the listener is added, then the subscribe command is sent with done as
\* its callback
CallSubscribeForScheduleExpiry(handleExpiredKey) ==
  /\ ~sbEscaped
  /\ Len(sbListeners) < MaxSubscriptions
  /\ sbListeners' = Append(sbListeners, handleExpiredKey)
  /\ sbCalls' = Append(sbCalls, Subscription("pending", <<>>))
  /\ UNCHANGED <<protoVars, timerVars, regVars, lockVars, cliVars, keyVars, cfgVars,
                 sbArrived, sbInbox, sbHandled, sbEscaped>>

\* the store acknowledges the subscribe command of the i-th call: the
\* client calls back with the channel
SubscribeAcknowledged(i) ==
  /\ sbCalls[i].phase = "pending"
  /\ sbCalls' =
       [sbCalls EXCEPT ![i] =
          Subscription("acknowledged",
                       @.done \o <<Invoked("", expiredSubscriptionKeyFor(DefaultDb))>>)]
  /\ UNCHANGED <<protoVars, timerVars, regVars, lockVars, cliVars, keyVars, cfgVars,
                 sbListeners, sbArrived, sbInbox, sbHandled, sbEscaped>>

\* the subscribe command of the i-th call fails
SubscribeFailed(i, error) ==
  /\ sbCalls[i].phase = "pending"
  /\ sbCalls' =
       [sbCalls EXCEPT ![i] =
          Subscription("failed", @.done \o <<Invoked(error, <<>>)>>)]
  /\ UNCHANGED <<protoVars, timerVars, regVars, lockVars, cliVars, keyVars, cfgVars,
                 sbListeners, sbArrived, sbInbox, sbHandled, sbEscaped>>

\* a notification reaches the listener client; one of the expired channel
\* only once a subscribe was acknowledged
Notify(n) ==
  /\ ~sbEscaped
  /\ Len(sbListeners) >= 1
  /\ Len(sbArrived) < MaxNotifications
  /\ n.channel = expiredSubscriptionKeyFor(DefaultDb) =>
       \E i \in DOMAIN sbCalls : sbCalls[i].phase = "acknowledged"
  /\ sbArrived' = Append(sbArrived, n)
  /\ sbInbox' = Append(sbInbox, n)
  /\ UNCHANGED <<protoVars, timerVars, regVars, lockVars, cliVars, keyVars, cfgVars,
                 sbListeners, sbCalls, sbHandled, sbEscaped>>

\* the client emits the oldest notification as a 'message' event
EmitMessage ==
  /\ ~sbEscaped
  /\ sbInbox # <<>>
  /\ LET n == Head(sbInbox)
         out == emit(sbListeners, 1, n.channel, n.expiredKey)
     IN  /\ sbHandled' = sbHandled \o out.handled
         /\ sbEscaped' = out.escaped
         /\ sbCalls' =
              [i \in DOMAIN sbCalls |->
                 IF i <= Len(out.done)
                 THEN Subscription(sbCalls[i].phase, sbCalls[i].done \o out.done[i])
                 ELSE sbCalls[i]]
  /\ sbInbox' = Tail(sbInbox)
  /\ UNCHANGED <<protoVars, timerVars, regVars, lockVars, cliVars, keyVars, cfgVars,
                 sbListeners, sbArrived>>

NextSubscribe ==
  \/ \E h \in Handlers : CallSubscribeForScheduleExpiry(h)
  \/ \E i \in DOMAIN sbCalls : SubscribeAcknowledged(i)
  \/ \E i \in DOMAIN sbCalls, e \in StoreErrors : SubscribeFailed(i, e)
  \/ \E n \in Notifications : Notify(n)
  \/ EmitMessage

SpecSubscribe == Init /\ [][NextSubscribe]_vars

\* the notifications emitted so far, in the order they arrived
Emitted == SubSeq(sbArrived, 1, Len(sbArrived) - Len(sbInbox))

\* C22: when handleExpiredKey throws, no exception leaves the message
\* listener, and the handler is still run for every later notification: a
\* single subscription whose handler throws has run it for every
\* notification emitted, the ones after the first throw included.
C22_HandlerExceptionSwallowed ==
  /\ ~sbEscaped
  /\ (Len(sbListeners) = 1 /\ sbListeners[1] = "throws") =>
       /\ Len(sbHandled) = Len(Emitted)
       /\ \A i \in DOMAIN sbHandled : sbHandled[i].handler = "throws"
       /\ sbInbox # <<>> => ENABLED EmitMessage

\* a throwing handler has been run for two notifications
C22_Witness ==
  /\ Len(sbListeners) = 1 /\ sbListeners[1] = "throws"
  /\ Len(sbHandled) >= 2
  /\ sbInbox # <<>>

\* C23: the done of a subscribeForScheduleExpiry call is not invoked while
\* its subscribe command is pending, and is invoked exactly once when the
\* command is acknowledged, with the expired-events channel, or fails, with
\* the error; notifications add no invocation.
C23_DoneOnceAtSubscribe ==
  \A i \in DOMAIN sbCalls :
    /\ sbCalls[i].phase = "pending" => sbCalls[i].done = <<>>
    /\ sbCalls[i].phase = "acknowledged" =>
         sbCalls[i].done = <<Invoked("", expiredSubscriptionKeyFor(DefaultDb))>>
    /\ sbCalls[i].phase = "failed" =>
         /\ Len(sbCalls[i].done) = 1
         /\ sbCalls[i].done[1].error \in StoreErrors

\* a call was acknowledged and two notifications were emitted since
C23_Witness ==
  /\ Len(sbCalls) = 1
  /\ sbCalls[1].phase = "acknowledged"
  /\ Len(sbCalls[1].done) = 1
  /\ Len(Emitted) >= 2
  /\ Len(sbHandled) >= 2

\* C24: with one subscription, handleExpiredKey is run once for every
\* notification emitted, in the order of arrival, with the channel and the
\* expired key as they arrived, whatever the key.
C24_OncePerNotificationInOrder ==
  (Len(sbListeners) = 1 /\ sbListeners[1] # "notfn") =>
    sbHandled =
      [i \in 1..Len(Emitted) |->
         Handled(sbListeners[1], Emitted[i].channel, Emitted[i].expiredKey)]

\* one subscription has handled a foreign key and then a schedule key
C24_Witness ==
  /\ Len(sbListeners) = 1
  /\ Len(sbHandled) >= 2
  /\ sbHandled[1].expiredKey = ForeignKey
  /\ sbHandled[2].expiredKey \in Keys

(***************************************************************************)
(* The clients of redis in one process: calls of createScheduler,          *)
(* createListener and quit in any order.                                   *)
(***************************************************************************)
MaxCalls == 5

\* the client a create call returned, kept under its role
Returned(role, client) == [NoClients EXCEPT ![role] = client]

CallCreateScheduler(recreate) ==
  /\ clCalls < MaxCalls
  /\ LET did == createScheduler(scheduler, recreate, clUuids + 1)
     IN  /\ scheduler' = did.kept
         /\ clUuids' = IF did.created THEN clUuids + 1 ELSE clUuids
         /\ clReturn' = Returned("scheduler", did.client)
         /\ clGiven' = IF recreate THEN clGiven
                       ELSE [clGiven EXCEPT !.scheduler = @ \cup {did.client}]
  /\ clOp' = "createScheduler"
  /\ clRecreate' = recreate
  /\ clBefore' = [scheduler |-> scheduler, listener |-> listener]
  /\ clCalls' = clCalls + 1
  /\ UNCHANGED <<protoVars, timerVars, regVars, lockVars, subVars, keyVars, cfgVars,
                 listener, clClosed>>

CallCreateListener(recreate) ==
  /\ clCalls < MaxCalls
  /\ LET did == createListener(listener, recreate, clUuids + 1)
     IN  /\ listener' = did.kept
         /\ clUuids' = IF did.created THEN clUuids + 1 ELSE clUuids
         /\ clReturn' = Returned("listener", did.client)
         /\ clGiven' = IF recreate THEN clGiven
                       ELSE [clGiven EXCEPT !.listener = @ \cup {did.client}]
  /\ clOp' = "createListener"
  /\ clRecreate' = recreate
  /\ clBefore' = [scheduler |-> scheduler, listener |-> listener]
  /\ clCalls' = clCalls + 1
  /\ UNCHANGED <<protoVars, timerVars, regVars, lockVars, subVars, keyVars, cfgVars,
                 scheduler, clClosed>>

\* a slip: quit resets the registry along with the clients
CallQuit_ClearsRegistry ==
  /\ clCalls < MaxCalls
  /\ LET did == quit(scheduler, listener)
     IN  /\ scheduler' = did.scheduler
         /\ listener' = did.listener
         /\ clClosed' = clClosed \cup did.closed
         /\ clReturn' = did.returns
  /\ clGiven' = NoneGiven
  /\ clOp' = "quit"
  /\ clRecreate' = FALSE
  /\ clBefore' = [scheduler |-> scheduler, listener |-> listener]
  /\ clCalls' = clCalls + 1
  /\ schedules' = clearRegistry
  /\ UNCHANGED <<protoVars, timerVars, lockVars, subVars, keyVars, cfgVars, clUuids,
                 rgOp, rgArg, rgLoad, rgBefore, rgReturn, rgThrown, rgCleared,
                 ivOp, ivArg, ivValid, ivRan>>

CallQuit ==
  /\ clCalls < MaxCalls
  /\ LET did == quit(scheduler, listener)
     IN  /\ scheduler' = did.scheduler
         /\ listener' = did.listener
         /\ clClosed' = clClosed \cup did.closed
         /\ clReturn' = did.returns
  /\ clGiven' = NoneGiven
  /\ clOp' = "quit"
  /\ clRecreate' = FALSE
  /\ clBefore' = [scheduler |-> scheduler, listener |-> listener]
  /\ clCalls' = clCalls + 1
  /\ UNCHANGED <<protoVars, timerVars, regVars, lockVars, subVars, keyVars, cfgVars,
                 clUuids>>

NextClients ==
  \/ \E recreate \in BOOLEAN : CallCreateScheduler(recreate)
  \/ \E recreate \in BOOLEAN : CallCreateListener(recreate)
  \/ CallQuit

SpecClients == Init /\ [][NextClients]_vars

\* C25: between two quits, the createScheduler calls without recreate all
\* return one client and the createListener calls without recreate all
\* return one client; such a call creates a client exactly when none is kept
\* for its role.
C25_SameClientWithoutRecreate ==
  /\ [](Cardinality(clGiven.scheduler) <= 1 /\ Cardinality(clGiven.listener) <= 1)
  /\ [][(clCalls' # clCalls /\ clOp' # "quit" /\ ~clRecreate') =>
          LET held == IF clOp' = "createScheduler" THEN scheduler ELSE listener
          IN  clUuids' = IF held = NoClient THEN clUuids + 1 ELSE clUuids]_vars

\* createScheduler without recreate has returned the client already kept,
\* and a listener was given out as well
C25_Witness ==
  /\ clOp = "createScheduler" /\ ~clRecreate
  /\ clBefore.scheduler # NoClient
  /\ clReturn.scheduler = clBefore.scheduler
  /\ clGiven.listener # {}

\* C26: after a create call with recreate, the client kept for its role is
\* the client that call created and returned.
C26_RecreateReplacesSingleton ==
  /\ (clOp = "createScheduler" /\ clRecreate) => scheduler = clReturn.scheduler
  /\ (clOp = "createListener" /\ clRecreate) => listener = clReturn.listener

\* C27: quit closes the clients kept and keeps none; the object it returns
\* has no scheduler and no listener; a create call that finds no client
\* kept returns a new one, which is none of those closed.
C27_QuitClosesAndResets ==
  /\ clOp = "quit" =>
       /\ scheduler = NoClient /\ listener = NoClient
       /\ clReturn.scheduler = NoClient /\ clReturn.listener = NoClient
       /\ ({clBefore.scheduler, clBefore.listener} \ {NoClient}) \subseteq clClosed
  /\ (clOp = "createScheduler" /\ clBefore.scheduler = NoClient) =>
       /\ clReturn.scheduler # NoClient
       /\ clReturn.scheduler \notin clClosed
       /\ scheduler = clReturn.scheduler
  /\ (clOp = "createListener" /\ clBefore.listener = NoClient) =>
       /\ clReturn.listener # NoClient
       /\ clReturn.listener \notin clClosed
       /\ listener = clReturn.listener

\* createScheduler was called after a quit that closed a client
C27_Witness ==
  /\ clOp = "createScheduler"
  /\ clBefore.scheduler = NoClient
  /\ clClosed # {}

\* C28 as stated: quit returns the scheduler and the listener that were kept
\* when it was called.
C28_QuitReturnsPriorHandles ==
  clOp = "quit" => clReturn = clBefore

\* C28: the object quit returns holds no scheduler and no listener, whatever
\* was kept when it was called; the clients it closed are not in it.
C28_QuitReturnsUnsetHandles ==
  clOp = "quit" =>
    /\ clReturn = NoClients
    /\ clBefore # NoClients => clReturn # clBefore

\* quit was called with both clients kept
C28_Witness ==
  /\ clOp = "quit"
  /\ clBefore.scheduler # NoClient
  /\ clBefore.listener # NoClient

(***************************************************************************)
(* The key functions of redis on their own: one of them applied to two     *)
(* names.                                                                  *)
(***************************************************************************)
MaxSegments == 2

\* what a name may be made of, the words the keys themselves use included
KeySegments == {"sendEmail", "data", "keys", "next", "work"}

KeyNames == UNION {[1..n -> KeySegments] : n \in 0..MaxSegments}

InitKeys ==
  /\ ProtoInit
  /\ TimerIdle
  /\ RegistryIdle
  /\ InvokeIdle
  /\ SubscribeIdle
  /\ ClientsIdle
  /\ ConfigIdle
  /\ LocksIdle
  /\ kyNameA \in KeyNames
  /\ kyNameB \in KeyNames
  /\ kyOp = "none"
  /\ kyKeyA = <<>>
  /\ kyKeyB = <<>>

CallScheduleExpiryKeyFor ==
  /\ kyOp = "none"
  /\ kyOp' = "scheduleExpiryKeyFor"
  /\ kyKeyA' = scheduleExpiryKeyFor(kyNameA)
  /\ kyKeyB' = scheduleExpiryKeyFor(kyNameB)
  /\ UNCHANGED <<protoVars, timerVars, regVars, lockVars, subVars, cliVars, cfgVars,
                 kyNameA, kyNameB>>

CallScheduleDataKeyFor ==
  /\ kyOp = "none"
  /\ kyOp' = "scheduleDataKeyFor"
  /\ kyKeyA' = scheduleDataKeyFor(kyNameA)
  /\ kyKeyB' = scheduleDataKeyFor(kyNameB)
  /\ UNCHANGED <<protoVars, timerVars, regVars, lockVars, subVars, cliVars, cfgVars,
                 kyNameA, kyNameB>>

CallExpiryKeyFor ==
  /\ kyOp = "none"
  /\ kyOp' = "expiryKeyFor"
  /\ kyKeyA' = expiryKeyFor(kyNameA)
  /\ kyKeyB' = expiryKeyFor(kyNameB)
  /\ UNCHANGED <<protoVars, timerVars, regVars, lockVars, subVars, cliVars, cfgVars,
                 kyNameA, kyNameB>>

CallDataKeyFor ==
  /\ kyOp = "none"
  /\ kyOp' = "dataKeyFor"
  /\ kyKeyA' = dataKeyFor(kyNameA)
  /\ kyKeyB' = dataKeyFor(kyNameB)
  /\ UNCHANGED <<protoVars, timerVars, regVars, lockVars, subVars, cliVars, cfgVars,
                 kyNameA, kyNameB>>

NextKeys ==
  \/ CallScheduleExpiryKeyFor
  \/ CallScheduleDataKeyFor
  \/ CallExpiryKeyFor
  \/ CallDataKeyFor

SpecKeys == InitKeys /\ [][NextKeys]_vars

\* C29: a key function gives the same key for the same name and different
\* keys for different names, for the expiry key and for the data key.
C29_KeysStableAndDistinct ==
  kyOp # "none" => (kyNameA = kyNameB <=> kyKeyA = kyKeyB)

\* the data keys of 'sendEmail' and of 'data:sendEmail' were derived
C29_Witness ==
  /\ kyOp = "scheduleDataKeyFor"
  /\ kyNameA = <<"sendEmail">>
  /\ kyNameB = <<"data", "sendEmail">>
  /\ kyKeyA = <<"r", "schedules", "data", "sendEmail">>
  /\ kyKeyA # kyKeyB

(***************************************************************************)
(* Keyspace events: the process enables them and asks whether they are     *)
(* enabled, against a store whose setting other clients may change.        *)
(***************************************************************************)
\* what REDIS_NOTIFY_KEYSPACE_EVENTS or optns.notifyKeyspaceEvents may be
ConfiguredFlags ==
  {DefaultFlags, <<"K", "E", "x">>, <<"A", "K", "E">>, <<"A", "x", "E">>,
   <<"g", "x", "E">>}

\* what the store may be set to by others
StoreFlags == {{}, {"K"}, {"x", "E"}, {"g", "E"}, {"g", "x", "K", "E"}}

InitConfig ==
  /\ ProtoInit
  /\ TimerIdle
  /\ RegistryIdle
  /\ InvokeIdle
  /\ SubscribeIdle
  /\ ClientsIdle
  /\ KeysIdle
  /\ LocksIdle
  /\ cfConfigured \in ConfiguredFlags
  /\ cfFlags \in StoreFlags
  /\ cfOp = "none"
  /\ cfDone = NoReply
  /\ cfRead = <<>>
  /\ cfEnabled = <<>>

\* enableKeyspaceEvents: CONFIG SET with the configured flags succeeds
CallEnableKeyspaceEvents ==
  /\ cfFlags' = ConfigSet(cfConfigured)
  /\ cfOp' = "enableKeyspaceEvents"
  /\ cfDone' = NoReply
  /\ cfEnabled' = cfConfigured
  /\ UNCHANGED <<protoVars, timerVars, regVars, lockVars, subVars, cliVars, keyVars,
                 cfConfigured, cfRead>>

\* enableExpiryNotifications of the earlier revision: CONFIG SET 'xE'
CallEnableExpiryNotifications ==
  /\ cfFlags' = ConfigSet(<<"x", "E">>)
  /\ cfOp' = "enableExpiryNotifications"
  /\ cfDone' = NoReply
  /\ cfEnabled' = <<"x", "E">>
  /\ UNCHANGED <<protoVars, timerVars, regVars, lockVars, subVars, cliVars, keyVars,
                 cfConfigured, cfRead>>

\* either of them when the CONFIG SET fails
EnableFails(error) ==
  /\ cfOp' = "enableKeyspaceEvents"
  /\ cfDone' = [error |-> error, enabled |-> FALSE]
  /\ UNCHANGED <<protoVars, timerVars, regVars, lockVars, subVars, cliVars, keyVars,
                 cfConfigured, cfFlags, cfRead, cfEnabled>>

\* isKeyspaceEventsEnabled: CONFIG GET succeeds
CallIsKeyspaceEventsEnabled ==
  /\ cfOp' = "isKeyspaceEventsEnabled"
  /\ cfDone' = isKeyspaceEventsEnabled(cfConfigured, "", TRUE, ConfigGet(cfFlags))
  /\ cfRead' = ConfigGet(cfFlags)
  /\ UNCHANGED <<protoVars, timerVars, regVars, lockVars, subVars, cliVars, keyVars,
                 cfConfigured, cfFlags, cfEnabled>>

\* isKeyspaceEventsEnabled: CONFIG GET fails, there are no results
IsKeyspaceEventsEnabledFails(error) ==
  /\ cfOp' = "isKeyspaceEventsEnabled"
  /\ cfDone' = isKeyspaceEventsEnabled(cfConfigured, error, FALSE, <<>>)
  /\ cfRead' = <<>>
  /\ UNCHANGED <<protoVars, timerVars, regVars, lockVars, subVars, cliVars, keyVars,
                 cfConfigured, cfFlags, cfEnabled>>

\* isExpiryNotificationsEnabled of the earlier revision
CallIsExpiryNotificationsEnabled ==
  /\ cfOp' = "isExpiryNotificationsEnabled"
  /\ cfDone' = isExpiryNotificationsEnabled("", TRUE, ConfigGet(cfFlags))
  /\ cfRead' = ConfigGet(cfFlags)
  /\ UNCHANGED <<protoVars, timerVars, regVars, lockVars, subVars, cliVars, keyVars,
                 cfConfigured, cfFlags, cfEnabled>>

IsExpiryNotificationsEnabledFails(error) ==
  /\ cfOp' = "isExpiryNotificationsEnabled"
  /\ cfDone' = isExpiryNotificationsEnabled(error, FALSE, <<>>)
  /\ cfRead' = <<>>
  /\ UNCHANGED <<protoVars, timerVars, regVars, lockVars, subVars, cliVars, keyVars,
                 cfConfigured, cfFlags, cfEnabled>>

\* another client changes the setting
OtherClientSets(flags) ==
  /\ cfFlags # flags
  /\ cfFlags' = flags
  /\ cfEnabled' = <<>>
  /\ UNCHANGED <<protoVars, timerVars, regVars, lockVars, subVars, cliVars, keyVars,
                 cfConfigured, cfOp, cfDone, cfRead>>

NextConfig ==
  \/ CallEnableKeyspaceEvents
  \/ CallEnableExpiryNotifications
  \/ \E e \in StoreErrors : EnableFails(e)
  \/ CallIsKeyspaceEventsEnabled
  \/ \E e \in StoreErrors : IsKeyspaceEventsEnabledFails(e)
  \/ CallIsExpiryNotificationsEnabled
  \/ \E e \in StoreErrors : IsExpiryNotificationsEnabledFails(e)
  \/ \E flags \in StoreFlags : OtherClientSets(flags)

SpecConfig == InitConfig /\ [][NextConfig]_vars

\* the check was made and the store answered
Checked(op) == cfOp = op /\ cfDone.error = ""

\* C30: when enabling succeeded and the setting was not changed since, the
\* check reports true; the check reports true exactly when every flag asked
\* for occurs in the string the store returns; a failed read reports false
\* together with its error.
C30_EnabledAfterEnable ==
  /\ (Checked("isKeyspaceEventsEnabled") /\ cfEnabled = cfConfigured) =>
       cfDone.enabled
  /\ (Checked("isExpiryNotificationsEnabled") /\ cfEnabled = <<"x", "E">>) =>
       cfDone.enabled
  /\ Checked("isKeyspaceEventsEnabled") =>
       (cfDone.enabled <=> Letters(cfConfigured) \subseteq Letters(cfRead))
  /\ Checked("isExpiryNotificationsEnabled") =>
       (cfDone.enabled <=> {"x", "E"} \subseteq Letters(cfRead))
  /\ cfDone.error # "" => ~cfDone.enabled

\* what does hold of the check: the same, the first part only for flags the
\* store writes back letter by letter, the default 'xE' among them
EnabledAfterEnableByLetters ==
  /\ (Checked("isKeyspaceEventsEnabled") /\ cfEnabled = cfConfigured
        /\ "A" \notin Letters(cfConfigured)
        /\ ~(ClassFlags \subseteq Letters(cfConfigured))) =>
       cfDone.enabled
  /\ (Checked("isExpiryNotificationsEnabled") /\ cfEnabled = <<"x", "E">>) =>
       cfDone.enabled
  /\ Checked("isKeyspaceEventsEnabled") =>
       (cfDone.enabled <=> Letters(cfConfigured) \subseteq Letters(cfRead))
  /\ Checked("isExpiryNotificationsEnabled") =>
       (cfDone.enabled <=> {"x", "E"} \subseteq Letters(cfRead))
  /\ cfDone.error # "" => ~cfDone.enabled

(***************************************************************************)
(* The locks: processes acquire schedule locks and work locks, unlock them *)
(* or leave them, and time passes.                                         *)
(***************************************************************************)
\* the clock runs up to this many default TTLs
MaxLockTtls == 3

MaxLockCalls == 3

\* lockTtl of the options: not given, or the one the tests give
LockTtls == {DefaultLockTtl, CustomLockTtl}

\* a lock a process acquired and did not unlock; the store keeps it until
\* `until`
Capability(by, kind, name, key, token, until) ==
  [by |-> by, kind |-> kind, name |-> name, key |-> key, token |-> token,
   until |-> until]

\* the capabilities on a key whose TTL has not run out at t
HoldersOf(key, t) == {c \in lkHeld : c.key = key /\ t <= c.until}

\* lock(key, lockTtl, done) by process p for the lock of a kind and a name
AcquireLock(p, kind, name, key, lockTtl) ==
  /\ lkIssued < MaxLockCalls
  /\ LET token == <<p, lkIssued + 1>>
         got == lock(lkLocks[key], token, lockTtl, lkNow)
     IN  /\ lkLocks' = [lkLocks EXCEPT ![key] = got.entry]
         /\ lkHeld' =
              IF got.ok
              THEN lkHeld \cup {Capability(p, kind, name, key, token, lkNow + lockTtl)}
              ELSE lkHeld
         /\ lkLast' =
              [kind |-> kind, name |-> name, key |-> key, by |-> p,
               acquired |-> got.ok, found |-> lkLocks[key], at |-> lkNow,
               holders |-> HoldersOf(key, lkNow)]
  /\ lkIssued' = lkIssued + 1
  /\ UNCHANGED <<protoVars, timerVars, regVars, subVars, cliVars, keyVars,
                 cfgVars, lkNow>>

CallAcquireScheduleLock(p, name, lockTtl) ==
  AcquireLock(p, "next", name, scheduleLockKeyFor(name), lockTtl)

CallAcquireWorkLock(p, name, lockTtl) ==
  AcquireLock(p, "work", name, workLockKeyFor(name), lockTtl)

\* the holder invokes the unlock it was given
CallUnlock(c) ==
  /\ c \in lkHeld
  /\ lkLocks' = [lkLocks EXCEPT ![c.key] = unlock(@, c.token, lkNow)]
  /\ lkHeld' = lkHeld \ {c}
  /\ UNCHANGED <<protoVars, timerVars, regVars, subVars, cliVars, keyVars,
                 cfgVars, lkNow, lkIssued, lkLast>>

\* a default TTL passes
LockTimePasses ==
  /\ lkNow < MaxLockTtls * DefaultLockTtl
  /\ lkNow' = lkNow + DefaultLockTtl
  /\ UNCHANGED <<protoVars, timerVars, regVars, subVars, cliVars, keyVars,
                 cfgVars, lkLocks, lkHeld, lkIssued, lkLast>>

NextLocks ==
  \/ \E p \in Procs, n \in LockNames, ttl \in LockTtls :
       CallAcquireScheduleLock(p, n, ttl)
  \/ \E p \in Procs, n \in LockNames, ttl \in LockTtls :
       CallAcquireWorkLock(p, n, ttl)
  \/ \E c \in lkHeld : CallUnlock(c)
  \/ LockTimePasses

SpecLocks == Init /\ [][NextLocks]_vars

\* C31: every lock the store holds has a TTL that ends no later than the
\* longest lockTtl from now, and a lock call made after the TTL of the lock
\* it finds has run out acquires the lock, unlocked or not.
C31_LockExpiresByTtl ==
  /\ \A k \in LockKeys :
       lkLocks[k].exists =>
         /\ lkLocks[k].expireAt # NoExpiry
         /\ lkLocks[k].expireAt <= lkNow + CustomLockTtl
  /\ (lkLast.kind # "none" /\ ~KeyLive(lkLast.found, lkLast.at)) => lkLast.acquired

\* a lock that was never unlocked was acquired again after its TTL
C31_Witness ==
  /\ lkLast.acquired
  /\ lkLast.found.exists
  /\ lkLast.at > lkLast.found.expireAt
  /\ \E c \in lkHeld : c.key = lkLast.key /\ c.token = lkLast.found.value

\* C32: of the capabilities on one key whose TTL has not run out at most one
\* exists; a lock call acquires the lock when there is none and is refused
\* only because of a capability of its own kind and name.
C32_OneHolderPerKindAndName ==
  /\ \A k \in LockKeys : Cardinality(HoldersOf(k, lkNow)) <= 1
  /\ lkLast.kind # "none" =>
       /\ lkLast.acquired <=> lkLast.holders = {}
       /\ \A c \in lkLast.holders : c.kind = lkLast.kind /\ c.name = lkLast.name

\* the schedule lock and the work lock of one name and the schedule lock of
\* another name are held together, and a call was refused
C32_Witness ==
  /\ \E c, d, e \in lkHeld :
       /\ c.until >= lkNow /\ d.until >= lkNow /\ e.until >= lkNow
       /\ c.name = SendEmail /\ c.kind = "next"
       /\ d.name = SendEmail /\ d.kind = "work"
       /\ e.name = SendReport /\ e.kind = "next"


(***************************************************************************)
(* The registry and the clients of one process together: definitions are   *)
(* registered and the registry is reset while clients are created and      *)
(* quit.                                                                   *)
(***************************************************************************)
NextStop ==
  \/ CallClearRegistry
  \/ \E optns \in ValidDefinitions : CallDefineSchedule(optns)
  \/ \E recreate \in BOOLEAN : CallCreateScheduler(recreate)
  \/ \E recreate \in BOOLEAN : CallCreateListener(recreate)
  \/ CallQuit

SpecStop == Init /\ [][NextStop]_vars

\* the step is a call of quit
QuitStep == clCalls' = clCalls + 1 /\ clOp' = "quit"

\* C33: a quit leaves the registry as it was, every definition registered
\* before it still registered and unchanged; a registered definition comes
\* out of the registry, or changes, only in a call of clearRegistry.
C33_QuitPreservesRegistry ==
  [][/\ QuitStep => schedules' = schedules
     /\ \A n \in RegistryNames :
          (schedules[n] # UndefinedOptns /\ schedules'[n] # schedules[n]) =>
            /\ rgOp' = "clearRegistry"
            /\ rgBefore' = schedules
            /\ schedules' = clearRegistry]_vars

\* a quit that closed both clients has left two definitions registered
C33_Witness ==
  /\ clOp = "quit"
  /\ clBefore.scheduler # NoClient
  /\ clBefore.listener # NoClient
  /\ {clBefore.scheduler, clBefore.listener} \subseteq clClosed
  /\ schedules[SendEmail] # UndefinedOptns
  /\ schedules[SendReport] # UndefinedOptns


\* the set command scheduleNextRun issues for sendEmail from the inputs of
\* the computation
IssuedSet ==
  scheduleNextRunCommand(
    scheduleExpiryKeyFor(SendEmail),
    scheduleNextRunPlan(tmPattern, tmLastRunAt, tmClock).scheduleDelay)

\* C34: when scheduleNextRun issues its conditional set, the TTL of the set
\* is the reported nextRunAt minus the instant read at the start of the
\* call, in milliseconds, and is above zero; with lastRunAt defaulted and a
\* human interval it is the duration of the interval.
C34_TtlIsNextRunAtMinusStart ==
  (/\ tmFn = "scheduleNextRun"
   /\ ~scheduleNextRunPlan(tmPattern, tmLastRunAt, tmClock).thrown) =>
    /\ tmResult.kind = "date"
    /\ IssuedSet.nx
    /\ IssuedSet.px = tmResult.t - tmClock[1]
    /\ IssuedSet.px > 0
    /\ (tmLastRunAt = NoDate /\ ~CronParses(tmPattern)) =>
         IssuedSet.px = humanInterval(tmPattern)

\* a set was issued from a given lastRunAt that is not the start instant,
\* with the clock moving during the call
C34_Witness ==
  /\ tmFn = "scheduleNextRun"
  /\ tmResult.kind = "date"
  /\ tmLastRunAt # NoDate
  /\ tmLastRunAt # tmClock[1]
  /\ tmClock[2] > tmClock[1]
  /\ IssuedSet.px = 999


\* C35: invokeSchedule on a valid definition invokes done only when perform
\* calls its callback or throws; when perform returns without calling its
\* callback, perform has run once, nothing is thrown and done is not
\* invoked at all, so nothing that waits for done (a re-arm) ever happens.
C35_NoTimeoutOnHangingPerform ==
  (ivOp = "invokeSchedule" /\ isValidSchedule(ivArg)) =>
    LET data == IF ivArg.data = "none" THEN "{}" ELSE ivArg.data
        run == Perform(ivArg.perform, data)
    IN  /\ ivRan.performs = 1
        /\ ivRan.done # <<>> <=> (run.calls # <<>> \/ run.throws # "")
        /\ ivArg.perform = "hangs" => (ivRan.done = <<>> /\ ivRan.thrown = "")
        /\ \A i \in 1..Len(ivRan.done) : ivRan.done[i].error # "Timeout"

\* a valid definition whose perform never calls back was invoked
C35_Witness ==
  /\ ivOp = "invokeSchedule"
  /\ isValidSchedule(ivArg)
  /\ ivArg.perform = "hangs"
  /\ ivRan.performs = 1
  /\ ivRan.done = <<>>


\* C36: after any sequence of defineSchedule, loadSchedules and
\* clearRegistry calls, every entry of the registry is a valid definition
\* and is stored under its own name.
C36_EntriesValidUnderOwnName ==
  \A n \in RegistryNames :
    schedules[n] # UndefinedOptns =>
      /\ isValidSchedule(schedules[n])
      /\ schedules[n].name = n

\* a load registered a definition from a file with another filename, under
\* the name the definition gives itself, and one under its filename
C36_Witness ==
  /\ rgOp = "loadSchedules"
  /\ \E i, j \in 1..Len(rgLoad.files) :
       /\ rgLoad.files[i].exported.name # <<>>
       /\ rgLoad.files[i].exported.name # rgLoad.files[i].filename
       /\ rgBefore[rgLoad.files[i].exported.name] = UndefinedOptns
       /\ schedules[rgLoad.files[i].exported.name] # UndefinedOptns
       /\ rgLoad.files[j].exported.name = <<>>
       /\ rgBefore[rgLoad.files[j].filename] = UndefinedOptns
       /\ schedules[rgLoad.files[j].filename] # UndefinedOptns


\* the instant a scheduleNextRun call read at its start: its TTL counts
\* from there to its nextRunAt
StartedAt(c) == c.nextRunAt - c.cmd.px

\* C37: when the store answers the set of a scheduleNextRun call without an
\* error, so that the call reports {nextRunAt}, the expiry key is in the
\* store and expires at that nextRunAt, give or take the time the command
\* took to reach the store; for the call that armed the key and for a call
\* that found it armed.
C37_KeyExpiresAtReportedNextRunAt ==
  [][\A p \in Procs :
       (/\ call[p].op = "scheduleNextRun"
        /\ call[p].phase = "sent"
        /\ call'[p].phase = "replied"
        /\ call'[p].error = "") =>
         LET k == call[p].cmd.key
             reported == scheduleNextRunReply("", call'[p].ok, call[p].nextRunAt)[1]
         IN  /\ reported.hasResult
             /\ KeyLive(store'[k], now)
             /\ store'[k].expireAt # NoExpiry
             /\ store'[k].expireAt >= reported.nextRunAt
             /\ store'[k].expireAt - reported.nextRunAt <= now - StartedAt(call[p])]_vars


\* the listeners whose handler is a function, by the place of their call
FunctionHandlers == {i \in 1..Len(sbListeners) : sbListeners[i] # "notfn"}

\* C38: every call of subscribeForScheduleExpiry has added a listener, and
\* one notification that is emitted runs the supplied handlers once per
\* call: k runs after k calls, in the order of the calls, each with the
\* channel and the key of the notification.
C38_HandlersRunOncePerSubscription ==
  [][(sbInbox # <<>> /\ sbInbox' = Tail(sbInbox)) =>
       /\ Len(sbListeners) = Len(sbCalls)
       /\ Len(sbHandled') = Len(sbHandled) + Cardinality(FunctionHandlers)
       /\ FunctionHandlers = 1..Len(sbListeners) =>
            sbHandled' =
              sbHandled \o
                [i \in 1..Len(sbListeners) |->
                   Handled(sbListeners[i], Head(sbInbox).channel,
                           Head(sbInbox).expiredKey)]]_vars

\* after two calls one expiry notification has run two handlers, the first
\* of which threw
C38_Witness ==
  /\ Len(sbListeners) = 2
  /\ Len(Emitted) = 1
  /\ Emitted[1].expiredKey \in Keys
  /\ Len(sbHandled) = 2
  /\ sbHandled[1].handler = "throws"
  /\ sbHandled[2].handler = "handles"


\* the clients created so far: each was returned by the call that created it
ClientsReturned == 1..clUuids

\* C39: after a quit, every client a createScheduler or createListener call
\* returned before it is closed, one created with recreate beside a kept
\* singleton included.
C39_QuitClosesEveryClient ==
  clOp = "quit" => ClientsReturned \subseteq clClosed


\* the keys of other kinds derived from a name: the data key and the keys
\* handed to lock for the registration lock and the invocation lock
OtherKindKeys(b) ==
  {scheduleDataKeyFor(b), dataKeyFor(b), scheduleLockKeyFor(b), workLockKeyFor(b)}

\* the keys of other kinds of the later revision, which has no
\* scheduleDataKeyFor
OtherKindKeysOfRevision(b) ==
  {dataKeyFor(b), scheduleLockKeyFor(b), workLockKeyFor(b)}

\* C40: the expiry key of a name a is never the data key, the
\* registration-lock key or the invocation-lock key of a name b, whatever
\* segments the (non-empty) names are made of.
C40_NamespacesDisjoint ==
  (kyNameA # <<>> /\ kyNameB # <<>>) =>
    /\ kyOp = "scheduleExpiryKeyFor" =>
         /\ kyKeyA \notin OtherKindKeys(kyNameB)
         /\ kyKeyB \notin OtherKindKeys(kyNameA)
    /\ kyOp = "expiryKeyFor" =>
         /\ kyKeyA \notin OtherKindKeysOfRevision(kyNameB)
         /\ kyKeyB \notin OtherKindKeysOfRevision(kyNameA)

\* the expiry keys of the later revision keep clear of the other kinds
RevisionNamespacesDisjoint ==
  kyOp = "expiryKeyFor" =>
    /\ kyKeyA \notin OtherKindKeysOfRevision(kyNameB)
    /\ kyKeyB \notin OtherKindKeysOfRevision(kyNameA)

====
